---- MODULE Spec2Model ----
(***************************************************************************)
(* A model of the two context extractors of the code-review repository:    *)
(*   - src/util/diff_utils.py : parse_diff_with_line_numbers and the       *)
(*     rendering of a FileContext;                                         *)
(*   - src/tools/grep_tool.py : _grep_internal, its lru_cache and the      *)
(*     callers run_grep / GrepTool.run.                                    *)
(* SpecDiff drives the diff parser over every unified diff of one file     *)
(* within the bounds, line by line.  SpecGrep runs one search over every   *)
(* tree and query within the bounds.  SpecCache runs sequences of searches *)
(* against the cache while the tree changes.  SpecConc runs concurrent     *)
(* callers of the cached function.  SpecParse runs whole calls of the      *)
(* parser one after the other, SpecInsert one call on a hunk that only     *)
(* inserts, SpecLookup one lookup of a file of a diff, SpecPath one path   *)
(* normalisation, and SpecProbe one search over a file given byte by byte. *)
(* SpecFiles parses diffs with binary, deleted and new files, SpecText     *)
(* generates the context text of a file, SpecGlob, SpecWalk and SpecRead   *)
(* run one search with globs, over nested directories and over files that  *)
(* cannot be read.  SpecGraph runs the expert sub-graph of                 *)
(* src/agents/expert_graph.py node by node.                                *)
(***************************************************************************)
EXTENDS Integers, Sequences, FiniteSets, TLC

VARIABLES
    \* ---- diff_utils.parse_diff_with_line_numbers, one patched file ----
    patch,             \* the hunks of the patched file read so far (unidiff)
    pc,                \* position in the loops of the parser
    current_new_line,  \* diff_utils.py:48
    new_file_lines,    \* diff_utils.py:41
    added_lines,       \* diff_utils.py:42
    modified_lines,    \* diff_utils.py:43
    removed_lines,     \* diff_utils.py:44
    context_text,      \* diff_utils.py:97, the rendering kept in the FileContext
    \* ---- grep_tool._grep_internal and its lru_cache ----
    tree,              \* the file tree under repo_root, in os.walk order
    cache,             \* the lru_cache of _grep_internal, oldest use first
    recency,           \* history: the keys ever used, least recently used first
    last,              \* history: the call of run_grep that returned last
    touched,           \* history: the tree changed since that call
    callers,           \* the concurrent callers of _grep_internal
    changed,           \* history: the tree changed while callers were running
    \* ---- calls of the functions of diff_utils, each as one step ----
    diff_content,      \* the diff text of the call that returned last
    file_path,         \* the path argument of that call
    returned,          \* what that call returned
    parses,            \* history: the diffs parsed so far, each with its result
    \* ---- expert_graph.build_expert_graph, one run of the compiled graph ----
    node,              \* the node that runs next, or END
    messages,          \* state["messages"]
    steps,             \* the steps the run has taken
    raised,            \* the run ended in GraphRecursionError
    reducer            \* how ExpertState merges the messages a node returns

diffVars == <<patch, pc, current_new_line, new_file_lines, added_lines,
              modified_lines, removed_lines, context_text>>

grepVars == <<tree, cache, recency, last, touched, callers, changed>>

apiVars == <<diff_content, file_path, returned, parses>>

graphVars == <<node, messages, steps, raised, reducer>>

vars == <<diffVars, grepVars, apiVars, graphVars>>

----------------------------------------------------------------------------
(* Bounds of the diff inputs. *)

\* hunks per patched file
MaxHunks == 2
\* body lines per hunk
MaxHunkLines == 2
\* largest start of the old-file range in a hunk header
MaxSourceStart == 2
\* largest start of the new-file range in a hunk header
MaxTargetStart == 5

----------------------------------------------------------------------------
(* unidiff: the lines of a hunk and the numbers PatchSet gives them. *)

\* Python's None for a line number unidiff leaves unset
None == -1

\* unidiff line types: added, removed, context, "\ No newline at end of file"
LINE_TYPE_ADDED == "+"
LINE_TYPE_REMOVED == "-"
LINE_TYPE_CONTEXT == " "
LINE_TYPE_NO_NEWLINE == "\\"

is_added(line) == line.line_type = LINE_TYPE_ADDED
is_removed(line) == line.line_type = LINE_TYPE_REMOVED
is_context(line) == line.line_type = LINE_TYPE_CONTEXT

\* how many lines of a hunk body advance the old-file / the new-file counter
RECURSIVE CountSource(_)
CountSource(ls) ==
    IF ls = <<>> THEN 0
    ELSE (IF is_removed(Head(ls)) \/ is_context(Head(ls)) THEN 1 ELSE 0)
         + CountSource(Tail(ls))

RECURSIVE CountTarget(_)
CountTarget(ls) ==
    IF ls = <<>> THEN 0
    ELSE (IF is_added(Head(ls)) \/ is_context(Head(ls)) THEN 1 ELSE 0)
         + CountTarget(Tail(ls))

\* The Line object unidiff builds for a body line of type t that follows the
\* body lines ls of a hunk: source_line_no / target_line_no count from the
\* header's starts, each only over the lines that exist on that side.
UniLine(hunk, t) ==
    [line_type |-> t,
     source_line_no |->
         IF t \in {LINE_TYPE_REMOVED, LINE_TYPE_CONTEXT}
         THEN hunk.source_start + CountSource(hunk.lines) ELSE None,
     target_line_no |->
         IF t \in {LINE_TYPE_ADDED, LINE_TYPE_CONTEXT}
         THEN hunk.target_start + CountTarget(hunk.lines) ELSE None]

\* Python truthiness of an optional line number: None and 0 are false
Truthy(n) == n # None /\ n # 0

\* `x or y` on an optional line number
Or(x, y) == IF Truthy(x) THEN x ELSE y

Abs(n) == IF n < 0 THEN -n ELSE n

----------------------------------------------------------------------------
(* diff_utils.py *)

\* the hunk being read, and the patch with a body line appended to it
CurHunk == patch[Len(patch)]
AppendLine(line) ==
    [patch EXCEPT ![Len(patch)].lines = Append(@, line)]

\* the text of a body line stands for itself: hunk and position in the patch
Value(h, l) == [h |-> h, l |-> l]

\* list.sort(key=lambda x: x[0]): stable, ascending by line number
RECURSIVE InsertByNum(_, _)
InsertByNum(sorted, e) ==
    IF sorted = <<>> THEN <<e>>
    ELSE IF sorted[Len(sorted)][1] <= e[1] THEN Append(sorted, e)
    ELSE Append(InsertByNum(SubSeq(sorted, 1, Len(sorted) - 1), e),
                sorted[Len(sorted)])

RECURSIVE SortByNumFrom(_, _)
SortByNumFrom(acc, s) ==
    IF s = <<>> THEN acc
    ELSE SortByNumFrom(InsertByNum(acc, Head(s)), Tail(s))

\* mutant: the final sort is left out
SortByNum_unsorted(s) == s

SortByNum(s) == SortByNumFrom(<<>>, s)

\* the change marker of one rendered line
Marker(line_num, added, modified) ==
    IF line_num \in added THEN "+"
    ELSE IF line_num \in modified THEN "~"
    ELSE " "

\* _format_context_text: the rendered lines, one element per text line
FormatContextText(path, lines, added, modified) ==
    IF lines = <<>>
    THEN << [text |-> "File:", file_path |-> path],
            [text |-> "(No new content in this file)"] >>
    ELSE << [text |-> "File:", file_path |-> path], [text |-> "="] >>
         \o [i \in 1..Len(lines) |->
                [marker |-> Marker(lines[i][1], added, modified),
                 line_num |-> lines[i][1],
                 content |-> lines[i][2]]]
         \o << [text |-> "="] >>

\* the modified-line heuristic over the body of one hunk
MODIFIED_DISTANCE == 3

\* mutant: the distance of a modified pair must be less than 3
IsModifiedPair_strict(removed, added) ==
    /\ is_removed(removed)
    /\ is_added(added)
    /\ Truthy(added.target_line_no)
    /\ Abs(added.target_line_no - removed.source_line_no) < MODIFIED_DISTANCE

IsModifiedPair(removed, added) ==
    /\ is_removed(removed)
    /\ is_added(added)
    /\ Truthy(added.target_line_no)
    /\ Abs(added.target_line_no - removed.source_line_no) <= MODIFIED_DISTANCE

\* mutant: the heuristic records the removed line's old-file position
ModifiedIn_removed_pos(hunk_lines) ==
    { hunk_lines[i].source_line_no :
        i \in { j \in 1..(Len(hunk_lines) - 1) :
                  IsModifiedPair(hunk_lines[j], hunk_lines[j + 1]) } }

ModifiedIn(hunk_lines) ==
    { hunk_lines[i + 1].target_line_no :
        i \in { j \in 1..(Len(hunk_lines) - 1) :
                  IsModifiedPair(hunk_lines[j], hunk_lines[j + 1]) } }

\* the key of the one patched file parsed line by line
OnePath == <<"x">>

\* for hunk in patched_file: the header of the next hunk
EnterHunk(ss, ts) ==
    /\ pc = "hunks"
    /\ Len(patch) < MaxHunks
    /\ patch' = Append(patch, [source_start |-> ss, target_start |-> ts,
                               lines |-> <<>>])
    /\ current_new_line' = IF current_new_line < ts THEN ts ELSE current_new_line
    /\ pc' = "lines"
    /\ UNCHANGED <<new_file_lines, added_lines, modified_lines, removed_lines,
                   context_text>>
    /\ UNCHANGED <<grepVars, apiVars, graphVars>>

\* mutant: the line is recorded under the parser's own counter
LineNum_counter(line) == current_new_line

\* the number an added or context line is recorded under
LineNum(line) == Or(line.target_line_no, current_new_line)

AddedLine ==
    /\ pc = "lines"
    /\ Len(CurHunk.lines) < MaxHunkLines
    /\ LET line == UniLine(CurHunk, LINE_TYPE_ADDED)
           line_num == LineNum(line)
       IN /\ patch' = AppendLine(line)
          /\ new_file_lines' =
                 Append(new_file_lines,
                        <<line_num, Value(Len(patch), Len(CurHunk.lines) + 1)>>)
          /\ added_lines' = added_lines \cup {line_num}
          /\ current_new_line' = current_new_line + 1
    /\ UNCHANGED <<pc, modified_lines, removed_lines, context_text>>
    /\ UNCHANGED <<grepVars, apiVars, graphVars>>

\* mutant: a removed line is also recorded as a line of the new file
RemovedLine_recorded ==
    /\ pc = "lines"
    /\ Len(CurHunk.lines) < MaxHunkLines
    /\ LET line == UniLine(CurHunk, LINE_TYPE_REMOVED)
       IN /\ patch' = AppendLine(line)
          /\ removed_lines' = removed_lines \cup {line.source_line_no}
          /\ new_file_lines' =
                 Append(new_file_lines,
                        <<current_new_line,
                          Value(Len(patch), Len(CurHunk.lines) + 1)>>)
    /\ UNCHANGED <<pc, current_new_line, added_lines, modified_lines,
                   context_text>>
    /\ UNCHANGED <<grepVars, apiVars, graphVars>>

RemovedLine ==
    /\ pc = "lines"
    /\ Len(CurHunk.lines) < MaxHunkLines
    /\ LET line == UniLine(CurHunk, LINE_TYPE_REMOVED)
       IN /\ patch' = AppendLine(line)
          /\ removed_lines' = removed_lines \cup {line.source_line_no}
    /\ UNCHANGED <<pc, current_new_line, new_file_lines, added_lines,
                   modified_lines, context_text>>
    /\ UNCHANGED <<grepVars, apiVars, graphVars>>

ContextLine ==
    /\ pc = "lines"
    /\ Len(CurHunk.lines) < MaxHunkLines
    /\ LET line == UniLine(CurHunk, LINE_TYPE_CONTEXT)
           line_num == LineNum(line)
       IN /\ patch' = AppendLine(line)
          /\ new_file_lines' =
                 Append(new_file_lines,
                        <<line_num, Value(Len(patch), Len(CurHunk.lines) + 1)>>)
          /\ current_new_line' = current_new_line + 1
    /\ UNCHANGED <<pc, added_lines, modified_lines, removed_lines, context_text>>
    /\ UNCHANGED <<grepVars, apiVars, graphVars>>

\* a "\ No newline at end of file" line: none of added, removed, context
UnknownLine ==
    /\ pc = "lines"
    /\ Len(CurHunk.lines) < MaxHunkLines
    /\ patch' = AppendLine(UniLine(CurHunk, LINE_TYPE_NO_NEWLINE))
    /\ UNCHANGED <<pc, current_new_line, new_file_lines, added_lines,
                   modified_lines, removed_lines, context_text>>
    /\ UNCHANGED <<grepVars, apiVars, graphVars>>

\* mutant: a line reclassified as modified is taken out of added_lines
DetectModified_moved ==
    /\ pc = "lines"
    /\ modified_lines' = modified_lines \cup ModifiedIn(CurHunk.lines)
    /\ added_lines' = added_lines \ ModifiedIn(CurHunk.lines)
    /\ pc' = "hunks"
    /\ UNCHANGED <<patch, current_new_line, new_file_lines, removed_lines,
                   context_text>>
    /\ UNCHANGED <<grepVars, apiVars, graphVars>>

\* the end of a hunk's body: the heuristic runs over list(hunk)
DetectModified ==
    /\ pc = "lines"
    /\ modified_lines' = modified_lines \cup ModifiedIn(CurHunk.lines)
    /\ pc' = "hunks"
    /\ UNCHANGED <<patch, current_new_line, new_file_lines, added_lines,
                   removed_lines, context_text>>
    /\ UNCHANGED <<grepVars, apiVars, graphVars>>

\* after the last hunk: sort, render, build the FileContext
BuildFileContext ==
    /\ pc = "hunks"
    /\ new_file_lines' = SortByNum(new_file_lines)
    /\ context_text' =
           FormatContextText(OnePath, new_file_lines', added_lines,
                             modified_lines)
    /\ pc' = "done"
    /\ UNCHANGED <<patch, current_new_line, added_lines, modified_lines,
                   removed_lines>>
    /\ UNCHANGED <<grepVars, apiVars, graphVars>>

----------------------------------------------------------------------------
(* Paths.  A string is the sequence of its characters.                      *)

\* longest path argument of a call
MaxPathLen == 3

PathChars == {"a", "b", "/", "x", " "}
Paths(n) == UNION { [1..k -> PathChars] : k \in 0..n }

\* str.startswith and slicing off the first n characters
StartsWith(s, prefix) ==
    Len(s) >= Len(prefix) /\ SubSeq(s, 1, Len(prefix)) = prefix
Drop(s, n) == SubSeq(s, n + 1, Len(s))

\* str.strip(): leading and trailing whitespace removed
RECURSIVE LStrip(_)
LStrip(s) == IF s # <<>> /\ Head(s) = " " THEN LStrip(Tail(s)) ELSE s
RECURSIVE RStrip(_)
RStrip(s) ==
    IF s # <<>> /\ s[Len(s)] = " " THEN RStrip(SubSeq(s, 1, Len(s) - 1)) ELSE s
Strip(s) == RStrip(LStrip(s))

\* _normalize_file_path
normalize_file_path(path_arg) ==
    LET path == Strip(path_arg)
        unprefixed ==
            IF StartsWith(path, <<"a", "/">>) \/ StartsWith(path, <<"b", "/">>)
            THEN Drop(path, 2) ELSE path
    IN IF StartsWith(unprefixed, <<"/">>) THEN Drop(unprefixed, 1)
       ELSE unprefixed

----------------------------------------------------------------------------
(* diff_utils.py, a whole call as one step.  A diff text is what PatchSet   *)
(* makes of it: "empty" is the empty string, "blank" holds only whitespace, *)
(* "prose" holds no file header (PatchSet finds no file), "broken" makes    *)
(* PatchSet raise UnidiffParseError (after the files it could read), and    *)
(* "patch" parses into its files.  A file is the path unidiff reports for   *)
(* it, its flags and its hunks; a hunk is its header starts and the types   *)
(* of its body lines.                                                       *)

\* the unidiff lines of a hunk, numbered as PatchSet numbers them
RECURSIVE UniLines(_, _)
UniLines(hunk, types) ==
    IF types = <<>> THEN hunk.lines
    ELSE UniLines([hunk EXCEPT !.lines = Append(@, UniLine(hunk, Head(types)))],
                  Tail(types))

HunkLines(hunk) ==
    UniLines([source_start |-> hunk.source_start,
              target_start |-> hunk.target_start, lines |-> <<>>], hunk.types)

\* a dict in insertion order: d[k] = v, k in d, d[k]
DictSet(d, k, v) ==
    IF \E i \in 1..Len(d) : d[i].key = k
    THEN [i \in 1..Len(d) |-> IF d[i].key = k THEN [key |-> k, value |-> v]
                              ELSE d[i]]
    ELSE Append(d, [key |-> k, value |-> v])
HasKey(d, k) == \E i \in 1..Len(d) : d[i].key = k
DictGet(d, k) == d[CHOOSE i \in 1..Len(d) : d[i].key = k].value

\* the outcome of a call: a value returned, or an exception that escapes
Return(v) == [raised |-> FALSE, value |-> v]
Raise == [raised |-> TRUE]

\* the locals of lines 41-48, set anew for each patched file
NewFileState ==
    [current_new_line |-> 1, new_file_lines |-> <<>>, added_lines |-> {},
     modified_lines |-> {}, removed_lines |-> {}]

\* mutant: a context line is also recorded as an added line
ParseLine_context_added(s, line, h, l) ==
    IF is_removed(line)
    THEN [s EXCEPT !.removed_lines = @ \cup {line.source_line_no}]
    ELSE IF is_added(line) \/ is_context(line)
    THEN LET line_num == Or(line.target_line_no, s.current_new_line)
         IN [s EXCEPT !.new_file_lines = Append(@, <<line_num, Value(h, l)>>),
                      !.added_lines = @ \cup {line_num},
                      !.current_new_line = @ + 1]
    ELSE s

\* the body of `for line in hunk` for line l of hunk h
ParseLine(s, line, h, l) ==
    IF is_added(line)
    THEN LET line_num == Or(line.target_line_no, s.current_new_line)
         IN [s EXCEPT !.new_file_lines = Append(@, <<line_num, Value(h, l)>>),
                      !.added_lines = @ \cup {line_num},
                      !.current_new_line = @ + 1]
    ELSE IF is_removed(line)
    THEN [s EXCEPT !.removed_lines = @ \cup {line.source_line_no}]
    ELSE IF is_context(line)
    THEN LET line_num == Or(line.target_line_no, s.current_new_line)
         IN [s EXCEPT !.new_file_lines = Append(@, <<line_num, Value(h, l)>>),
                      !.current_new_line = @ + 1]
    ELSE s

RECURSIVE ParseLines(_, _, _, _)
ParseLines(s, lines, h, l) ==
    IF l > Len(lines) THEN s
    ELSE ParseLines(ParseLine(s, lines[l], h, l), lines, h, l + 1)

\* the body of `for hunk in patched_file` for hunk h
ParseHunk(s, hunk, h) ==
    LET lines == HunkLines(hunk)
        entered ==
            [s EXCEPT !.current_new_line =
                 IF @ < hunk.target_start THEN hunk.target_start ELSE @]
        after == ParseLines(entered, lines, h, 1)
    IN [after EXCEPT !.modified_lines = @ \cup ModifiedIn(lines)]

RECURSIVE ParseHunks(_, _, _)
ParseHunks(s, hunks, h) ==
    IF h > Len(hunks) THEN s
    ELSE ParseHunks(ParseHunk(s, hunks[h], h), hunks, h + 1)

\* the FileContext built for a patched file under the key path
FileContextOf(path, f) ==
    LET s == ParseHunks(NewFileState, f.hunks, 1)
        sorted == SortByNum(s.new_file_lines)
    IN [file_path |-> path,
        new_file_lines |-> sorted,
        context_text |->
            FormatContextText(path, sorted, s.added_lines, s.modified_lines),
        added_lines |-> s.added_lines,
        modified_lines |-> s.modified_lines,
        removed_lines |-> s.removed_lines]

\* mutant: only binary files are skipped
Skipped_binary_only(f) == f.is_binary_file

\* `if patched_file.is_binary_file or patched_file.is_removed_file: continue`
Skipped(f) == f.is_binary_file \/ f.is_removed_file

\* the body of `for patched_file in patch_set`, from file i on
RECURSIVE ParseFiles(_, _, _)
ParseFiles(file_contexts, files, i) ==
    IF i > Len(files) THEN file_contexts
    ELSE LET f == files[i]
             path == normalize_file_path(f.path)
         IN IF Skipped(f)
            THEN ParseFiles(file_contexts, files, i + 1)
            ELSE ParseFiles(DictSet(file_contexts, path, FileContextOf(path, f)),
                            files, i + 1)

\* PatchSet(diff_content) raising
PatchSetRaises(d) == d.text = "broken"

\* mutant: the error of PatchSet is logged and raised again
CatchParseError_reraise == Raise

\* except Exception: logged, an empty mapping returned
CatchParseError == Return(<<>>)

\* mutant: the mapping is a module-level dict that keeps its entries
EmptyContexts_kept(previous) == previous

\* file_contexts = {} at the start of each call, whatever the call before
\* left behind
EmptyContexts(previous) == <<>>

\* parse_diff_with_line_numbers; previous is the mapping the call before
\* returned
parse_diff_with_line_numbers(d, previous) ==
    IF d.text \in {"empty", "blank"} THEN Return(<<>>)
    ELSE IF PatchSetRaises(d) THEN CatchParseError
    ELSE Return(ParseFiles(EmptyContexts(previous), d.files, 1))

\* Optional[FileContext]
NoContext == [found |-> FALSE]
Some(context) == [found |-> TRUE, context |-> context]

\* mutant: only the exact path is looked up
get_file_context_exact_only(d, path_arg) ==
    LET all_contexts == parse_diff_with_line_numbers(d, <<>>).value
    IN IF HasKey(all_contexts, path_arg)
       THEN Some(DictGet(all_contexts, path_arg))
       ELSE NoContext

\* get_file_context_with_line_numbers
get_file_context_with_line_numbers(d, path_arg) ==
    LET all_contexts == parse_diff_with_line_numbers(d, <<>>).value
        normalized_path == normalize_file_path(path_arg)
        reverse == { i \in 1..Len(all_contexts) :
                       normalize_file_path(all_contexts[i].key) = normalized_path }
    IN IF HasKey(all_contexts, path_arg)
       THEN Some(DictGet(all_contexts, path_arg))
       ELSE IF HasKey(all_contexts, normalized_path)
       THEN Some(DictGet(all_contexts, normalized_path))
       ELSE IF reverse # {}
       THEN Some(all_contexts[CHOOSE i \in reverse :
                                 \A j \in reverse : i <= j].value)
       ELSE NoContext

\* before the first call
NoDiff == [text |-> "none", files |-> <<>>]
NoReturn == [op |-> "none"]

\* the mapping the call before left behind
Previous ==
    IF returned.op = "parse" /\ ~returned.raised THEN returned.value ELSE <<>>

\* most calls of the parser in one process
MaxCalls == 4

\* a call of parse_diff_with_line_numbers
ParseCall(d) ==
    /\ Cardinality(parses) < MaxCalls
    /\ LET r == parse_diff_with_line_numbers(d, Previous)
       IN /\ returned' =
                 [op |-> "parse", raised |-> r.raised,
                  value |-> IF r.raised THEN <<>> ELSE r.value,
                  again |-> d \in { c.diff : c \in parses }]
          /\ parses' = parses \cup {[diff |-> d, result |-> r]}
    /\ diff_content' = d
    /\ file_path' = <<>>
    /\ UNCHANGED <<diffVars, grepVars, graphVars>>

\* a call of parse_diff_with_line_numbers on a fresh process
ParseOnce(d) ==
    /\ returned = NoReturn
    /\ LET r == parse_diff_with_line_numbers(d, Previous)
       IN /\ returned' =
                 [op |-> "parse", raised |-> r.raised,
                  value |-> IF r.raised THEN <<>> ELSE r.value,
                  again |-> FALSE]
          /\ parses' = {[diff |-> d, result |-> r]}
    /\ diff_content' = d
    /\ file_path' = <<>>
    /\ UNCHANGED <<diffVars, grepVars, graphVars>>

\* a call of get_file_context_with_line_numbers on a fresh process
LookupCall(d, path_arg) ==
    /\ returned = NoReturn
    /\ diff_content' = d
    /\ file_path' = path_arg
    /\ returned' = [op |-> "lookup",
                    value |-> get_file_context_with_line_numbers(d, path_arg)]
    /\ UNCHANGED <<parses, diffVars, grepVars, graphVars>>

\* a call of _normalize_file_path on a fresh process
NormalizeCall(path_arg) ==
    /\ returned = NoReturn
    /\ file_path' = path_arg
    /\ returned' = [op |-> "normalize", value |-> normalize_file_path(path_arg)]
    /\ UNCHANGED <<diff_content, parses, diffVars, grepVars, graphVars>>

\* the `for` loop of lines 178-180: the lines that are added or modified
RECURSIVE ChangedLines(_, _)
ChangedLines(context, i) ==
    IF i > Len(context.new_file_lines) THEN <<>>
    ELSE LET line_num == context.new_file_lines[i][1]
         IN (IF line_num \in context.added_lines
                  \/ line_num \in context.modified_lines
             THEN << context.new_file_lines[i] >> ELSE <<>>)
            \o ChangedLines(context, i + 1)

\* generate_context_text_for_file; the empty string is the empty sequence
\* of rendered lines
generate_context_text_for_file(d, path_arg, include_context_lines, max_context_lines) ==
    LET found == get_file_context_with_line_numbers(d, path_arg)
    IN IF ~found.found THEN <<>>
       ELSE IF include_context_lines THEN found.context.context_text
       ELSE FormatContextText(path_arg, ChangedLines(found.context, 1),
                              found.context.added_lines,
                              found.context.modified_lines)

\* a call of generate_context_text_for_file on a fresh process
GenerateCall(d, path_arg, include_context_lines, max_context_lines) ==
    /\ returned = NoReturn
    /\ diff_content' = d
    /\ file_path' = path_arg
    /\ returned' =
           [op |-> "generate",
            include_context_lines |-> include_context_lines,
            max_context_lines |-> max_context_lines,
            value |-> generate_context_text_for_file(
                          d, path_arg, include_context_lines,
                          max_context_lines)]
    /\ UNCHANGED <<parses, diffVars, grepVars, graphVars>>

----------------------------------------------------------------------------
(* Bounds of the search inputs. *)

\* files in the whole tree
MaxTreeFiles == 2
\* lines of a text file
MaxFileLines == 2
\* largest max_results a query asks for
MaxResults == 2
\* largest context_lines a query asks for
MaxContext == 1

----------------------------------------------------------------------------
(* The file tree.  A tree is its root's kind and the directories os.walk    *)
(* would visit below it, top-down: the root first (name ""), then the child *)
(* directories.  A line is its text without the line end.                   *)

LineTexts == {"a", "A"}
FileNames == {"m.py", "n.md"}
DirNames == {"src", "build", ".git"}

\* text: readable text; binary: a null byte in the first 8192 bytes;
\* unreadable: open() fails; gone: removed after the binary probe
TextFiles ==
    [name : FileNames, status : {"text"},
     lines : UNION { [1..n -> LineTexts] : n \in 0..MaxFileLines }]
OtherFiles ==
    [name : FileNames, status : {"binary", "unreadable", "gone"},
     lines : {<<"a">>}]
Files == TextFiles \cup OtherFiles

\* the files of one directory: distinct names, in the order os.walk lists them
FileLists(n) ==
    { fl \in UNION { [1..k -> Files] : k \in 0..n } :
        \A i, j \in 1..Len(fl) : i # j => fl[i].name # fl[j].name }

\* the trees of at most n files: a root that is missing or a file, a root
\* directory alone, a root directory with one child directory that has files
Trees(n) ==
    { [root |-> "missing", dirs |-> <<>>], [root |-> "file", dirs |-> <<>>] }
    \cup { [root |-> "dir", dirs |-> << [name |-> "", files |-> fl] >>] :
             fl \in FileLists(n) }
    \cup UNION { { [root |-> "dir",
                    dirs |-> << [name |-> "", files |-> top],
                                [name |-> d, files |-> sub] >>] :
                     d \in DirNames,
                     top \in FileLists(n - k), sub \in FileLists(k) \ {<<>>} } :
                  k \in 1..n }

----------------------------------------------------------------------------
(* grep_tool.py *)

\* The bytes of a file, as runs of bytes of one class: "nul" the null byte,
\* "text" printable ASCII (32..126), tab, newline and carriage return, "other"
\* every other byte.  A line of the model is one character and its newline;
\* a file given with its bytes has them; a binary file starts with a null.
Run(class, count) == [class |-> class, count |-> count]
Bytes(f) ==
    IF f.status = "binary" THEN << Run("nul", 1) >>
    ELSE IF "bytes" \in DOMAIN f THEN f.bytes
    ELSE << Run("text", 2 * Len(f.lines)) >>

\* f.read(8192): at most the first n bytes
SAMPLE_SIZE == 8192
RECURSIVE Chunk(_, _)
Chunk(runs, n) ==
    IF runs = <<>> \/ n = 0 THEN <<>>
    ELSE IF Head(runs).count >= n THEN << Run(Head(runs).class, n) >>
    ELSE << Head(runs) >> \o Chunk(Tail(runs), n - Head(runs).count)

\* how many bytes of a chunk are of one of the classes
RECURSIVE CountBytes(_, _)
CountBytes(chunk, classes) ==
    IF chunk = <<>> THEN 0
    ELSE (IF Head(chunk).class \in classes THEN Head(chunk).count ELSE 0)
         + CountBytes(Tail(chunk), classes)

\* mutant: a sample with exactly 70% text bytes counts as binary
IsBinaryFile_at_most(f) ==
    IF f.status = "unreadable" THEN TRUE
    ELSE LET chunk == Chunk(Bytes(f), SAMPLE_SIZE)
             text_chars == CountBytes(chunk, {"text"})
             len == CountBytes(chunk, {"nul", "text", "other"})
         IN IF CountBytes(chunk, {"nul"}) > 0 THEN TRUE
            ELSE len > 0 /\ 10 * text_chars <= 7 * len

\* _is_binary_file: open() raising, a null byte in the sample, or
\* text_chars / len(chunk) < 0.7
IsBinaryFile(f) ==
    IF f.status = "unreadable" THEN TRUE
    ELSE LET chunk == Chunk(Bytes(f), SAMPLE_SIZE)
             text_chars == CountBytes(chunk, {"text"})
             len == CountBytes(chunk, {"nul", "text", "other"})
         IN IF CountBytes(chunk, {"nul"}) > 0 THEN TRUE
            ELSE len > 0 /\ 10 * text_chars < 7 * len

\* open(file_path, "r").readlines() raising
ReadFails(f) == f.status = "gone"

StartsWithDot(dir_name) == dir_name \in {".git", ".cache"}

\* _should_skip_directory
skip_patterns ==
    {".git", "node_modules", "__pycache__", ".pytest_cache", ".mypy_cache",
     ".venv", "venv", "env", ".env", "dist", "build", ".idea", ".vscode",
     ".DS_Store"}
ShouldSkipDirectory(dir_name) ==
    dir_name \in skip_patterns \/ StartsWithDot(dir_name)

\* a file name, and str(file_path.relative_to(repo_path)): the directory's
\* path below the root ("" for the root itself) and the file name
BareName(f) == [dir |-> "", name |-> f.name]
RelativePath(dir, f) == [dir |-> dir.name, name |-> f.name]

\* fnmatch.fnmatch over the globs of the model: "*" matches every string
\* (also across '/'), "*.py" and "*.md" those with that suffix, "src/*" the
\* paths below src, "m.py" that string alone
Fnmatch(name, glob) ==
    \/ glob = "*"
    \/ glob = "*.py" /\ name.name = "m.py"
    \/ glob = "*.md" /\ name.name = "n.md"
    \/ glob = "src/*" /\ name.dir = "src"
    \/ glob = "m.py" /\ name.dir = "" /\ name.name = "m.py"

\* mutant: the globs are tested against the file name only
MatchesAny_name_only(dir, f, globs) ==
    \E i \in 1..Len(globs) : Fnmatch(BareName(f), globs[i])

\* any(fnmatch(file_name, g) or fnmatch(relative path, g) for g in globs)
MatchesAny(dir, f, globs) ==
    \E i \in 1..Len(globs) :
        \/ Fnmatch(BareName(f), globs[i])
        \/ Fnmatch(RelativePath(dir, f), globs[i])

\* mutant: the pattern is compiled outside the try
InvalidRegex_unchecked(q) == FALSE

\* re.compile raising re.error
InvalidRegex(q) == q.is_regex /\ q.pattern \in {"(", "(File:"}

\* re.IGNORECASE over the texts of the model
Lower(t) == IF t = "A" THEN "a" ELSE t

\* regex.search(line): the patterns of the model are one character, literal
\* or a regex that matches itself, so a line matches when it is the pattern
Search(q, line) ==
    IF q.case_sensitive THEN q.pattern = line
    ELSE Lower(q.pattern) = Lower(line)

Max(a, b) == IF a > b THEN a ELSE b
Min(a, b) == IF a < b THEN a ELSE b

\* the result block of a match on line line_num of a file
ResultBlock(q, dir, f, line_num) ==
    LET start_line == Max(1, line_num - q.context_lines)
        end_line == Min(Len(f.lines), line_num + q.context_lines)
    IN [file |-> RelativePath(dir, f),
        line_num |-> line_num,
        line |-> f.lines[line_num],
        start_line |-> start_line,
        end_line |-> end_line,
        context |-> [k \in 1..Max(0, end_line - start_line + 1) |->
                        [n |-> start_line + k - 1,
                         text |-> f.lines[start_line + k - 1]]]]

\* mutant: the cut-off is tested before a match is recorded, one match late
CappedAt_late(results, q) == Len(results) > q.max_results

\* result_count >= max_results
CappedAt(results, q) == Len(results) >= q.max_results

\* for line_num, line in enumerate(lines, start=1), from line n on
RECURSIVE ScanLines(_, _, _, _, _)
ScanLines(q, dir, f, n, results) ==
    IF n > Len(f.lines) THEN results
    ELSE IF Search(q, f.lines[n])
    THEN LET more == Append(results, ResultBlock(q, dir, f, n))
         IN IF CappedAt(more, q) THEN more
            ELSE ScanLines(q, dir, f, n + 1, more)
    ELSE ScanLines(q, dir, f, n + 1, results)

\* for file_name in files, from file i of the directory on; st holds the
\* results, the files probed by _is_binary_file and the files read
RECURSIVE WalkFiles(_, _, _, _)

\* mutant: a read failure ends the loop over the directory's files
AfterReadError_break(q, dir, i, st) == st

\* except Exception: continue
AfterReadError(q, dir, i, st) == WalkFiles(q, dir, i + 1, st)

WalkFiles(q, dir, i, st) ==
    IF i > Len(dir.files) THEN st
    ELSE
      LET f == dir.files[i]
          id == RelativePath(dir, f)
      IN IF ~MatchesAny(dir, f, q.include_patterns)
            \/ MatchesAny(dir, f, q.exclude_patterns)
         THEN WalkFiles(q, dir, i + 1, st)
         ELSE
           LET probed == [st EXCEPT !.probed = Append(@, id)]
           IN IF IsBinaryFile(f) THEN WalkFiles(q, dir, i + 1, probed)
              ELSE IF ReadFails(f) THEN AfterReadError(q, dir, i, probed)
              ELSE
                LET scanned ==
                      [probed EXCEPT
                         !.read = Append(@, id),
                         !.results = ScanLines(q, dir, f, 1, @)]
                IN IF CappedAt(scanned.results, q) THEN scanned
                   ELSE WalkFiles(q, dir, i + 1, scanned)

\* A directory is its path below the root and its files; a directory at
\* depth 2 or deeper also has its own name and the place of its parent in
\* the walk.
Base(dir) == IF "base" \in DOMAIN dir THEN dir.base ELSE dir.name
Parent(dir) == IF "parent" \in DOMAIN dir THEN dir.parent ELSE 1

\* mutant: a directory is left out by its own name, and the walk still
\* descends into the directories below a directory it left out
Pruned_own_name(t, d) == d > 1 /\ ShouldSkipDirectory(Base(t.dirs[d]))

\* dirs[:] = [d for d in dirs if not _should_skip_directory(d)]: os.walk
\* never enters a directory taken out of dirs, nor any directory below it
RECURSIVE Pruned(_, _)
Pruned(t, d) ==
    /\ d > 1
    /\ \/ ShouldSkipDirectory(Base(t.dirs[d]))
       \/ Pruned(t, Parent(t.dirs[d]))

\* for root, dirs, files in os.walk(repo_path), from directory d on; a
\* directory _should_skip_directory names is pruned and never visited
RECURSIVE WalkDirs(_, _, _, _)
WalkDirs(q, t, d, st) ==
    IF d > Len(t.dirs) THEN st
    ELSE IF Pruned(t, d)
    THEN WalkDirs(q, t, d + 1, st)
    ELSE LET after == WalkFiles(q, t.dirs[d], 1, st)
         IN IF CappedAt(after.results, q) THEN after
            ELSE WalkDirs(q, t, d + 1, after)

\* mutant: the loop variable of the glob tests is the function's `pattern`,
\* left at the glob tested last
PatternAfterWalk_rebound(q) ==
    IF q.exclude_patterns # <<>>
    THEN q.exclude_patterns[Len(q.exclude_patterns)]
    ELSE IF q.include_patterns # <<>>
    THEN q.include_patterns[Len(q.include_patterns)]
    ELSE q.pattern

\* the name `pattern` after the walk: the generator expressions that test
\* the globs bind a `pattern` of their own, the parameter is not rebound
PatternAfterWalk(q) == q.pattern

\* the body of _grep_internal on tree t: the returned string and, as
\* history, whether the tree was walked and which files were opened
GrepInternal(t, q) ==
    IF t.root # "dir"
    THEN [result |-> [kind |-> "error_root", text |-> q.repo_root],
          walked |-> FALSE, probed |-> <<>>, read |-> <<>>]
    ELSE IF InvalidRegex(q)
    THEN [result |-> [kind |-> "error_regex", text |-> q.pattern],
          walked |-> FALSE, probed |-> <<>>, read |-> <<>>]
    ELSE
      LET st == WalkDirs(q, t, 1,
                         [results |-> <<>>, probed |-> <<>>, read |-> <<>>])
      IN [result |-> IF st.results = <<>>
                     THEN [kind |-> "no_match", text |-> PatternAfterWalk(q)]
                     ELSE [kind |-> "blocks", blocks |-> st.results],
          walked |-> TRUE, probed |-> st.probed, read |-> st.read]

----------------------------------------------------------------------------
(* functools.lru_cache(maxsize=128) around _grep_internal.  The cache is the *)
(* sequence of its entries, least recently used first.                       *)

maxsize == 128

\* the key: the keyword arguments of the call, sequences as tuples
Key(q) == q

CacheKeys(c) == { c[i].key : i \in 1..Len(c) }

\* the position of the entry of key k, 0 when there is none
Find(c, k) ==
    IF \E i \in 1..Len(c) : c[i].key = k
    THEN CHOOSE i \in 1..Len(c) : c[i].key = k
    ELSE 0

Remove(c, i) == SubSeq(c, 1, i - 1) \o SubSeq(c, i + 1, Len(c))

\* mutant: a hit leaves the entry where it is (first in, first out)
Touch_fifo(c, i) == c

\* a cache hit: the entry becomes the most recently used
Touch(c, i) == Append(Remove(c, i), c[i])

\* mutant: the result is stored without looking for an entry another caller
\* stored in the meantime
Store_unchecked(c, k, result) ==
    IF Len(c) < maxsize THEN Append(c, [key |-> k, result |-> result])
    ELSE Append(Tail(c), [key |-> k, result |-> result])

\* after the call: keep an entry stored in the meantime, else add the
\* result, in place of the least recently used entry when the cache is full
Store(c, k, result) ==
    IF Find(c, k) # 0 THEN c
    ELSE IF Len(c) < maxsize THEN Append(c, [key |-> k, result |-> result])
    ELSE Append(Tail(c), [key |-> k, result |-> result])

\* mutant: error strings and the no-matches sentinel are not kept
Cacheable_blocks_only(result) == result.kind = "blocks"

\* every returned string is kept, whatever it says
Cacheable(result) == TRUE

\* mutant: a hit runs the search again and returns what it finds now
HitResult_fresh(entry, q) == GrepInternal(tree, q).result

\* a cache hit returns the stored string
HitResult(entry, q) == entry.result

\* history: the key k was used now
Used(r, k) == Append(SelectSeq(r, LAMBDA x : x # k), k)

\* before the first call; tick tells one call from the next in the history
NoCall == [key |-> "none", tick |-> 0]

\* one call of the cached function, start to return, with nothing in between
\* (run_grep and GrepTool.run are coroutines that never await)
CachedCall(q) ==
    LET k == Key(q)
        i == Find(cache, k)
    IN /\ IF i # 0
          THEN /\ cache' = Touch(cache, i)
               /\ last' = [key |-> k, result |-> HitResult(cache[i], q),
                           hit |-> TRUE, walked |-> FALSE, probed |-> <<>>,
                           read |-> <<>>, tick |-> 1 - last.tick]
          ELSE LET r == GrepInternal(tree, q)
               IN /\ cache' = IF Cacheable(r.result)
                              THEN Store(cache, k, r.result) ELSE cache
                  /\ last' = [key |-> k, result |-> r.result, hit |-> FALSE,
                              walked |-> r.walked, probed |-> r.probed,
                              read |-> r.read, tick |-> 1 - last.tick]
       /\ recency' = Used(recency, k)
       /\ touched' = FALSE

----------------------------------------------------------------------------
(* One search over a tree. *)

Globs ==
    { [include_patterns |-> <<"*">>, exclude_patterns |-> <<>>],
      [include_patterns |-> <<"*.py">>, exclude_patterns |-> <<>>],
      [include_patterns |-> <<"*.md", "*.py">>, exclude_patterns |-> <<"*.py">>] }
Patterns ==
    [pattern : {"a"}, is_regex : BOOLEAN, case_sensitive : BOOLEAN]
    \cup [pattern : {"("}, is_regex : BOOLEAN, case_sensitive : {TRUE}]
Queries ==
    { [repo_root |-> "/repo", pattern |-> p.pattern, is_regex |-> p.is_regex,
       case_sensitive |-> p.case_sensitive,
       include_patterns |-> g.include_patterns,
       exclude_patterns |-> g.exclude_patterns,
       context_lines |-> c, max_results |-> m] :
        p \in Patterns, g \in Globs, c \in (-1)..MaxContext,
        m \in (-1)..MaxResults }

\* run_grep / GrepTool.run on a fresh process
RunGrep(q) ==
    /\ last = NoCall
    /\ CachedCall(q)
    /\ UNCHANGED <<tree, callers, changed, diffVars, apiVars, graphVars>>

----------------------------------------------------------------------------
(* GrepTool.run: the dictionary around the result string. *)

\* str.count("File:") on a text of the model
CountIn(text) == IF text \in {"File:", "(File:"} THEN 1 ELSE 0

RECURSIVE CountInContext(_)
CountInContext(context) ==
    IF context = <<>> THEN 0
    ELSE CountIn(Head(context).text) + CountInContext(Tail(context))

\* the occurrences in a result block: its first line 'File: <path>', the
\* matching line and the context lines (the paths of the model hold none)
RECURSIVE CountInBlocks(_)
CountInBlocks(blocks) ==
    IF blocks = <<>> THEN 0
    ELSE 1 + CountIn(Head(blocks).line) + CountInContext(Head(blocks).context)
         + CountInBlocks(Tail(blocks))

\* result.count("File:") over the string _grep_internal returned: the
\* blocks, or a sentinel or error string that quotes the pattern or the root
CountFile(result) ==
    IF result.kind = "blocks" THEN CountInBlocks(result.blocks)
    ELSE CountIn(result.text)

\* GrepTool.run on a fresh process
GrepToolRun(q) ==
    /\ last = NoCall
    /\ CachedCall(q)
    /\ returned' = [op |-> "grep", result |-> last'.result,
                    pattern |-> q.pattern,
                    match_count |-> CountFile(last'.result),
                    error |-> None]
    /\ UNCHANGED <<tree, callers, changed, diff_content, file_path, parses,
                   diffVars, graphVars>>

\* a missing root, and m.py with at most two lines, "a" or "File:"
CountTrees ==
    { [root |-> "missing", dirs |-> <<>>] }
    \cup { [root |-> "dir",
            dirs |-> << [name |-> "",
                         files |-> << [name |-> "m.py", status |-> "text",
                                       lines |-> ls] >>] >>] :
             ls \in UNION { [1..n -> {"a", "File:"}] : n \in 0..MaxFileLines } }

\* the literal patterns a and File:, the regexes ( and (File:
CountQueries ==
    { [repo_root |-> "/repo", pattern |-> p.pattern, is_regex |-> p.is_regex,
       case_sensitive |-> TRUE, include_patterns |-> <<"*">>,
       exclude_patterns |-> <<>>, context_lines |-> c, max_results |-> m] :
        p \in { [pattern |-> "a", is_regex |-> FALSE],
                [pattern |-> "File:", is_regex |-> FALSE],
                [pattern |-> "(", is_regex |-> TRUE],
                [pattern |-> "(File:", is_regex |-> TRUE] },
        c \in 0..MaxContext, m \in 1..MaxResults }

----------------------------------------------------------------------------
(* One search with include and exclude globs. *)

\* most globs in an include or exclude list
MaxGlobs == 2
\* max_results and context_lines as GrepTool.run passes them by default
DefaultMaxResults == 50
DefaultContextLines == 10

GlobNames == {"*", "*.py", "src/*", "m.py"}
GlobLists(n) == UNION { [1..k -> GlobNames] : k \in 0..n }

GlobQueries ==
    { [repo_root |-> "/repo", pattern |-> "a", is_regex |-> FALSE,
       case_sensitive |-> TRUE, include_patterns |-> i,
       exclude_patterns |-> e, context_lines |-> DefaultContextLines,
       max_results |-> DefaultMaxResults] :
        i \in GlobLists(MaxGlobs), e \in GlobLists(MaxGlobs) }

\* a text file of one matching line
OneLine(name) == [name |-> name, status |-> "text", lines |-> <<"a">>]

\* a root and one directory src or lib, each with m.py, n.md or both
GlobFileLists ==
    { << OneLine("m.py"), OneLine("n.md") >>, << OneLine("m.py") >>,
      << OneLine("n.md") >> }
GlobTrees ==
    { [root |-> "dir",
       dirs |-> << [name |-> "", files |-> top],
                   [name |-> d, files |-> sub] >>] :
        d \in {"src", "lib"}, top \in GlobFileLists, sub \in GlobFileLists }

----------------------------------------------------------------------------
(* One search over nested directories. *)

\* deepest directory below the root
MaxDepth == 3

\* directory names: two the walk enters, one of the ignore set, one that
\* starts with a dot
WalkNames == {"src", "lib", "build", ".cache"}

RootDir == [name |-> "", files |-> << OneLine("m.py") >>]
SubDir(parent, index, base) ==
    [name |-> IF parent.name = "" THEN base ELSE parent.name \o "/" \o base,
     base |-> base, parent |-> index, files |-> << OneLine("m.py") >>]

\* the root and a chain of at most n directories, each inside the one before
RECURSIVE Chains(_)
Chains(n) ==
    IF n = 0 THEN { << RootDir >> }
    ELSE LET shorter == Chains(n - 1)
         IN shorter
            \cup { Append(c, SubDir(c[Len(c)], Len(c), b)) :
                     c \in { s \in shorter : Len(s) = n }, b \in WalkNames }

\* a chain, alone or followed by the directory docs next to its first
\* directory; every directory holds a file m.py with one matching line
WalkTrees(n) ==
    { [root |-> "dir", dirs |-> c \o tail] :
        c \in Chains(n) \ { << RootDir >> },
        tail \in { <<>>, << SubDir(RootDir, 1, "docs") >> } }

WalkQueries ==
    { [repo_root |-> "/repo", pattern |-> "a", is_regex |-> FALSE,
       case_sensitive |-> cs, include_patterns |-> <<"*">>,
       exclude_patterns |-> <<>>, context_lines |-> 0, max_results |-> m] :
        cs \in BOOLEAN, m \in {1, DefaultMaxResults} }

----------------------------------------------------------------------------
(* One search over files that cannot all be read. *)

\* a file of one line that matches "a", a file of one line that does not,
\* a file open() fails on, a file that is gone when it is read
ReadFiles(name) ==
    { [name |-> name, status |-> "text", lines |-> <<"a">>],
      [name |-> name, status |-> "text", lines |-> <<"A">>],
      [name |-> name, status |-> "unreadable", lines |-> <<"a">>],
      [name |-> name, status |-> "gone", lines |-> <<"a">>] }

\* m.py and n.md in the root, then m.py in src
ReadTrees ==
    { [root |-> "dir",
       dirs |-> << [name |-> "", files |-> << f1, f2 >>],
                   [name |-> "src", files |-> << f3 >>] >>] :
        f1 \in ReadFiles("m.py"), f2 \in ReadFiles("n.md"),
        f3 \in ReadFiles("m.py") }

ReadQueries ==
    { [repo_root |-> "/repo", pattern |-> "a", is_regex |-> FALSE,
       case_sensitive |-> TRUE, include_patterns |-> <<"*">>,
       exclude_patterns |-> <<>>, context_lines |-> c, max_results |-> m] :
        c \in 0..MaxContext, m \in (1..MaxResults) \cup {DefaultMaxResults} }

----------------------------------------------------------------------------
(* Sequences of searches while the tree changes. *)

\* distinct earlier queries of the session that fill the cache
Headroom == 1
BaseQuery ==
    [repo_root |-> "/repo", pattern |-> "a", is_regex |-> FALSE,
     case_sensitive |-> TRUE, include_patterns |-> <<"*">>,
     exclude_patterns |-> <<>>, context_lines |-> 0, max_results |-> 1]
Filler(n) == [BaseQuery EXCEPT !.context_lines = n]

SessionQueries ==
    { BaseQuery,
      [BaseQuery EXCEPT !.pattern = "(", !.is_regex = TRUE],
      Filler(1) }

\* a missing root, and a root directory holding the text file m.py
MissingRoot == [root |-> "missing", dirs |-> <<>>]
OneFile(lines) ==
    [root |-> "dir",
     dirs |-> << [name |-> "",
                  files |-> << [name |-> "m.py", status |-> "text",
                                lines |-> lines] >>] >>]

SessionTrees == { MissingRoot, OneFile(<<"a", "a">>), OneFile(<<"A">>) }

\* the session's first queries, each a new one
WarmUp ==
    /\ Len(cache) < maxsize - Headroom
    /\ CachedCall(Filler(Len(cache) + 1))
    /\ UNCHANGED <<tree, callers, changed, diffVars, apiVars, graphVars>>

\* any query of the session
SessionGrep(q) ==
    /\ Len(cache) >= maxsize - Headroom
    /\ CachedCall(q)
    /\ UNCHANGED <<tree, callers, changed, diffVars, apiVars, graphVars>>

\* files under the root are created, changed or deleted between calls
FsChange(t) ==
    /\ Len(cache) >= maxsize - Headroom
    /\ t # tree
    /\ tree' = t
    /\ touched' = TRUE
    /\ UNCHANGED <<cache, recency, last, callers, changed, diffVars, apiVars, graphVars>>

----------------------------------------------------------------------------
(* One search over a file given byte by byte. *)

\* runs of bytes after the lines of a probed file
MaxRuns == 2

\* lengths of a run: a few bytes, and up to the end of the sample
RunLengths == {1, 3, 5, SAMPLE_SIZE - 3, SAMPLE_SIZE - 2}
Tails(n) ==
    UNION { [1..k -> [class : {"nul", "text", "other"}, count : RunLengths]] :
              k \in 0..n }

\* a file of the lines body followed by the bytes tail, which hold no
\* newline: readlines() gives them as one more line, "x"
ProbeFile(body, tail) ==
    [name |-> "m.py", status |-> "text",
     lines |-> IF tail = <<>> THEN body ELSE Append(body, "x"),
     bytes |-> << Run("text", 2 * Len(body)) >> \o tail]

ProbeFiles(n) ==
    { ProbeFile(body, tail) : body \in {<<>>, <<"a">>}, tail \in Tails(n) }
    \cup { [name |-> "m.py", status |-> "unreadable", lines |-> <<"a">>] }

ProbeTrees(n) ==
    { [root |-> "dir", dirs |-> << [name |-> "", files |-> << f >>] >>] :
        f \in ProbeFiles(n) }

ProbeQueries == { BaseQuery, [BaseQuery EXCEPT !.case_sensitive = FALSE] }

----------------------------------------------------------------------------
(* Concurrent callers: threads that call _grep_internal, and coroutines      *)
(* that call it through run_grep.                                           *)

MaxCallers == 3
Callers == 1..MaxCallers

ConcQueries == { BaseQuery, [BaseQuery EXCEPT !.pattern = "("] }

ConcTrees == { MissingRoot, OneFile(<<"a", "a">>) }

Idle == [pc |-> "idle"]

\* a thread enters the wrapper: a hit returns the entry, a miss goes on to
\* call the function
ThreadLookup(c, q) ==
    /\ callers[c].pc = "idle"
    /\ LET i == Find(cache, Key(q))
       IN IF i # 0
          THEN /\ cache' = Touch(cache, i)
               /\ callers' = [callers EXCEPT ![c] =
                                [pc |-> "done", key |-> Key(q), hit |-> TRUE,
                                 result |-> HitResult(cache[i], q)]]
          ELSE /\ cache' = cache
               /\ callers' = [callers EXCEPT ![c] =
                                [pc |-> "computing", key |-> Key(q)]]
    /\ UNCHANGED <<tree, recency, last, touched, changed, diffVars, apiVars, graphVars>>

\* the thread runs the walk
ThreadCompute(c) ==
    /\ callers[c].pc = "computing"
    /\ callers' = [callers EXCEPT ![c] =
                     [pc |-> "storing", key |-> callers[c].key,
                      computed |-> GrepInternal(tree, callers[c].key).result]]
    /\ UNCHANGED <<tree, cache, recency, last, touched, changed, diffVars, apiVars, graphVars>>

\* back in the wrapper, the thread stores its result and returns it
ThreadStore(c) ==
    /\ callers[c].pc = "storing"
    /\ cache' = Store(cache, callers[c].key, callers[c].computed)
    /\ callers' = [callers EXCEPT ![c] =
                     [pc |-> "done", key |-> callers[c].key, hit |-> FALSE,
                      result |-> callers[c].computed]]
    /\ UNCHANGED <<tree, recency, last, touched, changed, diffVars, apiVars, graphVars>>

\* a coroutine of run_grep: the whole call is one step of the event loop
Coroutine(c, q) ==
    /\ callers[c].pc = "idle"
    /\ CachedCall(q)
    /\ callers' = [callers EXCEPT ![c] =
                     [pc |-> "done", key |-> Key(q), hit |-> last'.hit,
                      result |-> last'.result]]
    /\ UNCHANGED <<tree, changed, diffVars, apiVars, graphVars>>

\* the tree changes while callers are running
ConcFsChange(t) ==
    /\ t # tree
    /\ tree' = t
    /\ changed' = TRUE
    /\ UNCHANGED <<cache, recency, last, touched, callers, diffVars, apiVars, graphVars>>

----------------------------------------------------------------------------
(* Whole calls of the parser: the diff texts. *)

Hunk(ss, ts, types) ==
    [source_start |-> ss, target_start |-> ts, types |-> types]
PatchedFile(path, hunks) ==
    [path |-> path, is_binary_file |-> FALSE, is_removed_file |-> FALSE,
     hunks |-> hunks]
Patch(files) == [text |-> "patch", files |-> files]

\* the bodies of a hunk '@@ -10,5 +10,7 @@' that only inserts: five context
\* lines and two added lines, at any positions
InsertionBodies ==
    { t \in [1..7 -> {LINE_TYPE_ADDED, LINE_TYPE_CONTEXT}] :
        Cardinality({ i \in 1..7 : t[i] = LINE_TYPE_ADDED }) = 2 }
\* the hunk '@@ -10,5 +10,7 @@', and the same hunk at other places of a file
InsertionStarts == {1, 2, 9, 10, 11, 100}
InsertionDiffs ==
    { Patch(<< PatchedFile(<<"x">>, << Hunk(n, n, t) >>) >>) :
        n \in InsertionStarts, t \in InsertionBodies }

\* a replacement in x and an insertion in b
GoodFile ==
    PatchedFile(<<"x">>,
                << Hunk(1, 1, <<LINE_TYPE_REMOVED, LINE_TYPE_ADDED>>) >>)
OtherFile == PatchedFile(<<"b">>, << Hunk(2, 2, <<LINE_TYPE_ADDED>>) >>)

\* texts that hold no diff: empty, whitespace, prose, a diff PatchSet gives
\* up on at once or after a well-formed file
TextDiffs ==
    { [text |-> "empty", files |-> <<>>],
      [text |-> "blank", files |-> <<>>],
      [text |-> "prose", files |-> <<>>],
      [text |-> "broken", files |-> <<>>],
      [text |-> "broken", files |-> << GoodFile >>] }

ParseDiffs ==
    TextDiffs
    \cup { Patch(<< GoodFile >>), Patch(<< OtherFile >>),
           Patch(<< GoodFile, OtherFile >>) }

\* the paths unidiff reports for the files of the diffs that are looked up:
\* x, a/x, a/a/x (a file under directories named a), //x, b
PatchPaths ==
    { <<"x">>, <<"b">>, <<"a", "/", "x">>, <<"a", "/", "a", "/", "x">>,
      <<"/", "/", "x">> }

\* diffs of one or two files; file i inserts a line at line i
LookupDiffs ==
    { Patch(<< PatchedFile(p, << Hunk(1, 1, <<LINE_TYPE_ADDED>>) >>) >>) :
        p \in PatchPaths }
    \cup { Patch(<< PatchedFile(p1, << Hunk(1, 1, <<LINE_TYPE_ADDED>>) >>),
                    PatchedFile(p2, << Hunk(2, 2, <<LINE_TYPE_ADDED>>) >>) >>) :
             p1 \in PatchPaths, p2 \in PatchPaths }

\* the keys parse_diff_with_line_numbers stores for a diff
StoredKeys(d) ==
    LET all_contexts == parse_diff_with_line_numbers(d, <<>>).value
    IN { all_contexts[i].key : i \in 1..Len(all_contexts) }

\* the prefixes a caller may put before a path
Prefixes == { <<>>, <<"a", "/">>, <<"b", "/">>, <<"/">> }

\* the paths looked up in a diff: every short path, and every stored key
\* behind every prefix
LookupPaths(d) ==
    Paths(MaxPathLen) \cup { pre \o k : pre \in Prefixes, k \in StoredKeys(d) }

\* most files in one diff
MaxFiles == 2

\* unidiff's PatchedFile.is_removed_file: the target is /dev/null, or the
\* only hunk has an empty new-file range that starts at 0
IsRemovedFile(target_dev_null, hunks) ==
    \/ target_dev_null
    \/ /\ Len(hunks) = 1
       /\ hunks[1].target_start = 0
       /\ CountTarget(HunkLines(hunks[1])) = 0

\* a file as PatchSet reports it: binary files have no hunks
FlaggedFile(path, binary, target_dev_null, hunks) ==
    [path |-> path, is_binary_file |-> binary,
     is_removed_file |-> IsRemovedFile(target_dev_null, hunks),
     hunks |-> hunks]

\* the files of the diffs with skipped files: a binary file, a deleted file
\* ('+++ /dev/null'), a new file ('--- /dev/null'), a replacement, a removal
\* of line 3 without context ('@@ -3 +2,0 @@'), a removal of the first line
\* without context ('@@ -1 +0,0 @@'), and two such removals
FileBodies ==
    { [binary |-> TRUE, dev_null |-> FALSE, hunks |-> <<>>],
      [binary |-> FALSE, dev_null |-> TRUE,
       hunks |-> << Hunk(1, 0, <<LINE_TYPE_REMOVED, LINE_TYPE_REMOVED>>) >>],
      [binary |-> FALSE, dev_null |-> FALSE,
       hunks |-> << Hunk(0, 1, <<LINE_TYPE_ADDED, LINE_TYPE_ADDED>>) >>],
      [binary |-> FALSE, dev_null |-> FALSE,
       hunks |-> << Hunk(1, 1, <<LINE_TYPE_REMOVED, LINE_TYPE_ADDED>>) >>],
      [binary |-> FALSE, dev_null |-> FALSE,
       hunks |-> << Hunk(3, 2, <<LINE_TYPE_REMOVED>>) >>],
      [binary |-> FALSE, dev_null |-> FALSE,
       hunks |-> << Hunk(1, 0, <<LINE_TYPE_REMOVED>>) >>],
      [binary |-> FALSE, dev_null |-> FALSE,
       hunks |-> << Hunk(1, 0, <<LINE_TYPE_REMOVED>>),
                    Hunk(5, 3, <<LINE_TYPE_REMOVED>>) >>] }

\* the paths of these files: x, b, and a/x (the file x under a directory a)
FilePaths == { <<"x">>, <<"b">>, <<"a", "/", "x">> }

FlaggedFiles ==
    { FlaggedFile(p, b.binary, b.dev_null, b.hunks) :
        p \in FilePaths, b \in FileBodies }

\* the lists of at most n files with different paths
RECURSIVE FileSeqs(_)
FileSeqs(n) ==
    IF n = 0 THEN { <<>> }
    ELSE LET shorter == FileSeqs(n - 1)
         IN shorter
            \cup { Append(fs, f) :
                     fs \in { s \in shorter : Len(s) = n - 1 },
                     f \in FlaggedFiles }

FileDiffs(n) ==
    { Patch(fs) :
        fs \in { s \in FileSeqs(n) :
                   /\ s # <<>>
                   /\ \A i, j \in 1..Len(s) : i # j => s[i].path # s[j].path } }

\* largest max_context_lines a caller passes
MaxContextLines == 2
\* lines in the body of the hunk whose text is generated
MaxBody == 3

\* the bodies of at most n lines
RECURSIVE Bodies(_)
Bodies(n) ==
    IF n = 0 THEN { <<>> }
    ELSE LET shorter == Bodies(n - 1)
         IN shorter
            \cup { Append(b, t) :
                     b \in { s \in shorter : Len(s) = n - 1 },
                     t \in {LINE_TYPE_ADDED, LINE_TYPE_REMOVED,
                            LINE_TYPE_CONTEXT} }

\* diffs of the file x with one hunk at line 1 that changes something
ContextDiffs(n) ==
    { Patch(<< PatchedFile(<<"x">>, << Hunk(1, 1, t) >>) >>) :
        t \in { b \in Bodies(n) :
                  \E l \in 1..Len(b) : b[l] # LINE_TYPE_CONTEXT } }

\* the paths text is asked for: x, a/x, and b, which is not in the diff
ContextPaths == { <<"x">>, <<"a", "/", "x">>, <<"b">> }

----------------------------------------------------------------------------
(* expert_graph.py: the sub-graph of build_expert_graph, run by LangGraph.  *)
(* A message is its type and, for the answer of the model, its tool calls;  *)
(* the message of type "other" stands for an answer that has no tool_calls  *)
(* attribute.                                                               *)

\* most tool calls in one answer of the model
MaxToolCalls == 2
\* the steps after which LangGraph gives up with GraphRecursionError
RecursionLimit == 9

END == "__end__"

\* what llm_with_tools.ainvoke may return
Responses ==
    { [type |-> "ai", tool_calls |-> [i \in 1..n |-> i]] : n \in 0..MaxToolCalls }
    \cup { [type |-> "other"] }

\* ExpertState is not declared in this file: a node's messages are appended
\* to the list (add_messages) or take its place
Reducers == {"add_messages", "replace"}
Update(old, new) == IF reducer = "add_messages" THEN old \o new ELSE new

\* mutant: an answer with a tool_calls attribute goes to the tools, also
\* when the list is empty
tools_condition_hasattr_only(state_messages) ==
    IF state_messages = <<>> THEN "end"
    ELSE IF "tool_calls" \in DOMAIN state_messages[Len(state_messages)]
    THEN "tools"
    ELSE "end"

\* tools_condition
tools_condition(state_messages) ==
    IF state_messages = <<>> THEN "end"
    ELSE LET last_message == state_messages[Len(state_messages)]
         IN IF "tool_calls" \in DOMAIN last_message
               /\ last_message.tool_calls # <<>>
            THEN "tools"
            ELSE "end"

\* add_conditional_edges("reasoner", tools_condition, {...})
ConditionalEdge(route) == IF route = "tools" THEN "tools" ELSE END

\* the reasoner node: one answer of the model, then the conditional edge
Reasoner(response) ==
    /\ node = "reasoner"
    /\ ~raised
    /\ steps < RecursionLimit
    /\ messages' = Update(messages, << response >>)
    /\ node' = ConditionalEdge(tools_condition(messages'))
    /\ steps' = steps + 1
    /\ UNCHANGED <<raised, reducer>>
    /\ UNCHANGED <<diffVars, grepVars, apiVars>>

\* the ToolNode: one ToolMessage for each tool call of the last message,
\* then the edge back to the reasoner
Tools ==
    /\ node = "tools"
    /\ ~raised
    /\ steps < RecursionLimit
    /\ LET calls == messages[Len(messages)].tool_calls
       IN messages' =
              Update(messages,
                     [i \in 1..Len(calls) |->
                         [type |-> "tool", tool_call_id |-> calls[i]]])
    /\ node' = "reasoner"
    /\ steps' = steps + 1
    /\ UNCHANGED <<raised, reducer>>
    /\ UNCHANGED <<diffVars, grepVars, apiVars>>

\* a node is due after the last step LangGraph allows
RecursionError ==
    /\ node \in {"reasoner", "tools"}
    /\ ~raised
    /\ steps = RecursionLimit
    /\ raised' = TRUE
    /\ UNCHANGED <<node, messages, steps, reducer>>
    /\ UNCHANGED <<diffVars, grepVars, apiVars>>

----------------------------------------------------------------------------
(* Specifications. *)

DiffIdle ==
    /\ patch = <<>>
    /\ pc = "off"
    /\ current_new_line = 1
    /\ new_file_lines = <<>>
    /\ added_lines = {}
    /\ modified_lines = {}
    /\ removed_lines = {}
    /\ context_text = <<>>

GrepIdle ==
    /\ tree = MissingRoot
    /\ cache = <<>>
    /\ recency = <<>>
    /\ last = NoCall
    /\ touched = FALSE
    /\ callers = [c \in Callers |-> Idle]
    /\ changed = FALSE

ApiIdle ==
    /\ diff_content = NoDiff
    /\ file_path = <<>>
    /\ returned = NoReturn
    /\ parses = {}

GraphIdle ==
    /\ node = "off"
    /\ messages = <<>>
    /\ steps = 0
    /\ raised = FALSE
    /\ reducer = "add_messages"

InitDiff ==
    /\ patch = <<>>
    /\ pc = "hunks"
    /\ current_new_line = 1
    /\ new_file_lines = <<>>
    /\ added_lines = {}
    /\ modified_lines = {}
    /\ removed_lines = {}
    /\ context_text = <<>>
    /\ GrepIdle
    /\ ApiIdle
    /\ GraphIdle

NextDiff ==
    \/ \E ss \in 0..MaxSourceStart, ts \in 0..MaxTargetStart : EnterHunk(ss, ts)
    \/ AddedLine
    \/ RemovedLine
    \/ ContextLine
    \/ UnknownLine
    \/ DetectModified
    \/ BuildFileContext

SpecDiff == InitDiff /\ [][NextDiff]_vars

InitGrep ==
    /\ DiffIdle
    /\ ApiIdle
    /\ GraphIdle
    /\ tree \in Trees(MaxTreeFiles)
    /\ cache = <<>>
    /\ recency = <<>>
    /\ last = NoCall
    /\ touched = FALSE
    /\ callers = [c \in Callers |-> Idle]
    /\ changed = FALSE

NextGrep == \E q \in Queries : RunGrep(q)

SpecGrep == InitGrep /\ [][NextGrep]_vars

InitProbe ==
    /\ DiffIdle
    /\ ApiIdle
    /\ GraphIdle
    /\ tree \in ProbeTrees(MaxRuns)
    /\ cache = <<>>
    /\ recency = <<>>
    /\ last = NoCall
    /\ touched = FALSE
    /\ callers = [c \in Callers |-> Idle]
    /\ changed = FALSE

InitGlob ==
    /\ DiffIdle
    /\ ApiIdle
    /\ GraphIdle
    /\ tree \in GlobTrees
    /\ cache = <<>>
    /\ recency = <<>>
    /\ last = NoCall
    /\ touched = FALSE
    /\ callers = [c \in Callers |-> Idle]
    /\ changed = FALSE

NextGlob == \E q \in GlobQueries : RunGrep(q)

SpecGlob == InitGlob /\ [][NextGlob]_vars

InitWalk ==
    /\ DiffIdle
    /\ ApiIdle
    /\ GraphIdle
    /\ tree \in WalkTrees(MaxDepth)
    /\ cache = <<>>
    /\ recency = <<>>
    /\ last = NoCall
    /\ touched = FALSE
    /\ callers = [c \in Callers |-> Idle]
    /\ changed = FALSE

NextWalk == \E q \in WalkQueries : RunGrep(q)

SpecWalk == InitWalk /\ [][NextWalk]_vars

InitRead ==
    /\ DiffIdle
    /\ ApiIdle
    /\ GraphIdle
    /\ tree \in ReadTrees
    /\ cache = <<>>
    /\ recency = <<>>
    /\ last = NoCall
    /\ touched = FALSE
    /\ callers = [c \in Callers |-> Idle]
    /\ changed = FALSE

NextRead == \E q \in ReadQueries : RunGrep(q)

SpecRead == InitRead /\ [][NextRead]_vars

InitCount ==
    /\ DiffIdle
    /\ ApiIdle
    /\ GraphIdle
    /\ tree \in CountTrees
    /\ cache = <<>>
    /\ recency = <<>>
    /\ last = NoCall
    /\ touched = FALSE
    /\ callers = [c \in Callers |-> Idle]
    /\ changed = FALSE

NextCount == \E q \in CountQueries : GrepToolRun(q)

SpecCount == InitCount /\ [][NextCount]_vars

NextProbe == \E q \in ProbeQueries : RunGrep(q)

SpecProbe == InitProbe /\ [][NextProbe]_vars

InitCache ==
    /\ DiffIdle
    /\ ApiIdle
    /\ GraphIdle
    /\ tree \in SessionTrees
    /\ cache = <<>>
    /\ recency = <<>>
    /\ last = NoCall
    /\ touched = FALSE
    /\ callers = [c \in Callers |-> Idle]
    /\ changed = FALSE

NextCache ==
    \/ WarmUp
    \/ \E q \in SessionQueries : SessionGrep(q)
    \/ \E t \in SessionTrees : FsChange(t)

SpecCache == InitCache /\ [][NextCache]_vars

InitConc ==
    /\ DiffIdle
    /\ ApiIdle
    /\ GraphIdle
    /\ tree \in ConcTrees
    /\ cache = <<>>
    /\ recency = <<>>
    /\ last = NoCall
    /\ touched = FALSE
    /\ callers = [c \in Callers |-> Idle]
    /\ changed = FALSE

NextConc ==
    \/ \E c \in Callers, q \in ConcQueries : ThreadLookup(c, q)
    \/ \E c \in Callers : ThreadCompute(c)
    \/ \E c \in Callers : ThreadStore(c)
    \/ \E c \in Callers, q \in ConcQueries : Coroutine(c, q)
    \/ \E t \in ConcTrees : ConcFsChange(t)

SpecConc == InitConc /\ [][NextConc]_vars

InitApi ==
    /\ DiffIdle
    /\ GrepIdle
    /\ ApiIdle
    /\ GraphIdle

NextParse == \E d \in ParseDiffs : ParseCall(d)

SpecParse == InitApi /\ [][NextParse]_vars

NextInsert == \E d \in InsertionDiffs : ParseOnce(d)

SpecInsert == InitApi /\ [][NextInsert]_vars

NextLookup == \E d \in LookupDiffs : \E p \in LookupPaths(d) : LookupCall(d, p)

SpecLookup == InitApi /\ [][NextLookup]_vars

NextPath == \E p \in Paths(MaxPathLen) : NormalizeCall(p)

SpecPath == InitApi /\ [][NextPath]_vars

NextText ==
    \E d \in ContextDiffs(MaxBody), p \in ContextPaths,
       include_context_lines \in BOOLEAN,
       max_context_lines \in 0..MaxContextLines :
        GenerateCall(d, p, include_context_lines, max_context_lines)

SpecText == InitApi /\ [][NextText]_vars

\* graph.ainvoke(initial_state): set_entry_point("reasoner"), no messages
InitGraph ==
    /\ DiffIdle
    /\ GrepIdle
    /\ diff_content = NoDiff
    /\ file_path = <<>>
    /\ returned = NoReturn
    /\ parses = {}
    /\ node = "reasoner"
    /\ messages = <<>>
    /\ steps = 0
    /\ raised = FALSE
    /\ reducer \in Reducers

NextGraph ==
    \/ \E response \in Responses : Reasoner(response)
    \/ Tools
    \/ RecursionError

SpecGraph == InitGraph /\ [][NextGraph]_vars

NextFiles == \E d \in FileDiffs(MaxFiles) : ParseOnce(d)

SpecFiles == InitApi /\ [][NextFiles]_vars

----------------------------------------------------------------------------
(* Properties of the FileContext built from one patched file. *)

\* the line numbers of the classified-line sequence
LineNums == { new_file_lines[i][1] : i \in 1..Len(new_file_lines) }

\* the body line of the patch an entry of new_file_lines was recorded from
SourceLine(e) == patch[e[2].h].lines[e[2].l]

\* all body lines of the patch, as (hunk, position) pairs
BodyLines ==
    { v \in [h : 1..Len(patch), l : 1..MaxHunkLines + 1] :
        v.l <= Len(patch[v.h].lines) }

\* the new-file line range a hunk covers
TargetRange(hunk) ==
    hunk.target_start .. (hunk.target_start + CountTarget(hunk.lines) - 1)

\* the hunks are well formed in new-file coordinates: ranges start at line 1
\* or later and no two hunks cover the same new-file line
HunksDisjoint ==
    /\ \A h \in 1..Len(patch) :
           CountTarget(patch[h].lines) > 0 => patch[h].target_start >= 1
    /\ \A h1, h2 \in 1..Len(patch) :
           h1 # h2 => TargetRange(patch[h1]) \cap TargetRange(patch[h2]) = {}

\* C1 as stated: no number of removed_lines is the line number of an entry of
\* new_file_lines of the same FileContext.
C1_RemovedNumbersAbsent ==
    pc = "done" => removed_lines \cap LineNums = {}

\* C1, amended: a Removed line contributes no entry to new_file_lines (the
\* entries are exactly the Added and Context body lines), and removed_lines
\* holds exactly the old-file numbers of the Removed lines; such a number may
\* equal the new-file number of an entry.
C1_RemovedLinesNotRecorded ==
    pc = "done" =>
        /\ { new_file_lines[i][2] : i \in 1..Len(new_file_lines) }
               = { v \in BodyLines :
                     is_added(patch[v.h].lines[v.l])
                     \/ is_context(patch[v.h].lines[v.l]) }
        /\ Len(new_file_lines)
               = Cardinality({ v \in BodyLines :
                                 is_added(patch[v.h].lines[v.l])
                                 \/ is_context(patch[v.h].lines[v.l]) })
        /\ removed_lines
               = { patch[v.h].lines[v.l].source_line_no :
                     v \in { w \in BodyLines : is_removed(patch[w.h].lines[w.l]) } }

\* C1 witness: a finished parse with a Removed line whose old-file number is
\* also the number of a recorded new-file line
C1_Witness ==
    /\ pc = "done"
    /\ removed_lines # {}
    /\ removed_lines \cap LineNums # {}

\* C2 as stated: for any parsed file the line numbers of new_file_lines are
\* strictly increasing from each entry to the next.
C2_StrictlyIncreasing ==
    pc = "done" =>
        \A i \in 1..(Len(new_file_lines) - 1) :
            new_file_lines[i][1] < new_file_lines[i + 1][1]

\* C2, amended: the line numbers are strictly increasing when the hunks cover
\* pairwise disjoint new-file ranges that start at line 1 or later, in
\* whatever order the hunks appear.
C2_StrictlyIncreasingIfDisjoint ==
    (pc = "done" /\ HunksDisjoint) =>
        \A i \in 1..(Len(new_file_lines) - 1) :
            new_file_lines[i][1] < new_file_lines[i + 1][1]

\* C2 witness: two disjoint hunks given out of file order, both with lines
C2_Witness ==
    /\ pc = "done"
    /\ HunksDisjoint
    /\ Len(patch) = 2
    /\ patch[2].target_start < patch[1].target_start
    /\ CountTarget(patch[1].lines) > 0
    /\ CountTarget(patch[2].lines) > 1

\* the rendered lines of context_text that carry a marker
Rendered == { i \in 1..Len(context_text) : "marker" \in DOMAIN context_text[i] }

\* C3: in context_text a line whose number is in modified_lines carries '~',
\* every other Added line '+', and every Context line a space (stated here
\* for diffs whose hunks are well formed, where a line number names one line).
C3_MarkerPerKind ==
    (pc = "done" /\ HunksDisjoint) =>
        \A i \in Rendered :
            LET r == context_text[i]
                line == patch[r.content.h].lines[r.content.l]
            IN r.marker =
                 IF r.line_num \in modified_lines THEN "~"
                 ELSE IF is_added(line) THEN "+"
                 ELSE " "

\* C4: every number in added_lines and in modified_lines is the line number of
\* some entry of new_file_lines.
C4_ChangedLinesPresent ==
    pc = "done" => (added_lines \cup modified_lines) \subseteq LineNums

\* C4 witness: a finished parse with a Modified line and a plain Added line
C4_Witness ==
    /\ pc = "done"
    /\ modified_lines # {}
    /\ added_lines \ modified_lines # {}

\* the body line before v in its hunk, and the distance between the target
\* position of v and the source position of that line
Preceding(v) == patch[v.h].lines[v.l - 1]
Distance(v) ==
    patch[v.h].lines[v.l].target_line_no - Preceding(v).source_line_no

\* v is an Added line immediately preceded by a Removed line of its hunk,
\* their positions at most 3 apart
FollowsRemovedWithin3(v) ==
    /\ is_added(patch[v.h].lines[v.l])
    /\ v.l > 1
    /\ is_removed(Preceding(v))
    /\ Distance(v) >= -3
    /\ Distance(v) <= 3

\* the Added and Context body lines
NewLines ==
    { v \in BodyLines :
        is_added(patch[v.h].lines[v.l]) \/ is_context(patch[v.h].lines[v.l]) }

\* what the heuristic makes of a hunk '@@ -s,1 +t,1 @@' with a Removed line
\* followed by an Added line
BoundaryPair(s, t) ==
    ModifiedIn(HunkLines(Hunk(s, t, <<LINE_TYPE_REMOVED, LINE_TYPE_ADDED>>)))

\* C12 as stated: an Added line immediately preceded by a Removed line of its
\* hunk has its position in modified_lines if and only if the two positions
\* are at most 3 apart; the position of an Added line not immediately
\* preceded by a Removed line, and of any Context line, is never put there.
C12_ModifiedIffWithin3 ==
    pc \in {"hunks", "done"} =>
        \A v \in NewLines :
            patch[v.h].lines[v.l].target_line_no \in modified_lines
                <=> FollowsRemovedWithin3(v)

\* C12, amended: modified_lines holds exactly the target positions, other
\* than 0, of the Added lines that immediately follow a Removed line of
\* their hunk at a distance of at most 3 (source 100, target 103: Modified;
\* target 104: not); when the hunks cover disjoint new-file ranges that
\* start at line 1 or later, a line's position is in modified_lines if and
\* only if it is such a line, so no other Added line and no Context line is
\* reclassified.
C12_ModifiedIffWithin3IfDisjoint ==
    pc \in {"hunks", "done"} =>
        /\ modified_lines =
               { patch[v.h].lines[v.l].target_line_no :
                   v \in { w \in NewLines :
                             /\ FollowsRemovedWithin3(w)
                             /\ patch[w.h].lines[w.l].target_line_no # 0 } }
        /\ HunksDisjoint =>
               \A v \in NewLines :
                   patch[v.h].lines[v.l].target_line_no \in modified_lines
                       <=> FollowsRemovedWithin3(v)
        /\ BoundaryPair(100, 103) = {103}
        /\ BoundaryPair(100, 104) = {}

\* C12 witness: two disjoint hunks, each a Removed line followed by an Added
\* line: 3 apart in one, reclassified, and 4 apart in the other, not
C12_Witness ==
    /\ pc = "done"
    /\ HunksDisjoint
    /\ \E v, w \in NewLines :
           /\ v.l > 1 /\ is_removed(Preceding(v)) /\ Distance(v) = 3
           /\ patch[v.h].lines[v.l].target_line_no \in modified_lines
           /\ w.l > 1 /\ is_removed(Preceding(w)) /\ Distance(w) = 4
           /\ is_added(patch[w.h].lines[w.l])
           /\ patch[w.h].lines[w.l].target_line_no \notin modified_lines

----------------------------------------------------------------------------
(* Properties of one search. *)

\* the call returned match blocks / how many
Returned == last # NoCall
Blocks == IF last.result.kind = "blocks" THEN last.result.blocks ELSE <<>>

\* the lines the walk would scan, as (directory, file, line) positions: in a
\* directory that is not pruned, in a file the globs select that is text and
\* readable; and those of them that match
Scanned(t, q) ==
    { p \in (1..Len(t.dirs)) \X (1..MaxTreeFiles + 1) \X (1..MaxFileLines + 1) :
        /\ p[1] = 1 \/ ~ShouldSkipDirectory(t.dirs[p[1]].name)
        /\ p[2] <= Len(t.dirs[p[1]].files)
        /\ LET f == t.dirs[p[1]].files[p[2]]
           IN /\ f.status = "text"
              /\ MatchesAny(t.dirs[p[1]], f, q.include_patterns)
              /\ ~MatchesAny(t.dirs[p[1]], f, q.exclude_patterns)
              /\ p[3] <= Len(f.lines) }
Matching(t, q) ==
    { p \in Scanned(t, q) : Search(q, t.dirs[p[1]].files[p[2]].lines[p[3]]) }

\* traversal order: directories in walk order, files in listing order, lines
\* ascending
Before(p, r) ==
    \/ p[1] < r[1]
    \/ p[1] = r[1] /\ p[2] < r[2]
    \/ p[1] = r[1] /\ p[2] = r[2] /\ p[3] < r[3]

\* the block of the match at position p
BlockAt(t, q, p) ==
    ResultBlock(q, t.dirs[p[1]], t.dirs[p[1]].files[p[2]], p[3])

\* C5: for every query and every integer max_results the returned string
\* holds at most max_results match blocks (stated here for max_results >= 0,
\* where "at most max_results blocks" can be met).
C5_AtMostMaxResults ==
    (Returned /\ last.key.max_results >= 0) =>
        Len(Blocks) <= last.key.max_results

\* C6: with max_results = k >= 1 and N matching lines in the files the walk
\* would scan, the call returns exactly min(k, N) blocks, and they are the
\* first min(k, N) matches in traversal order.
C6_FirstMatchesInOrder ==
    (Returned /\ last.key.max_results >= 1) =>
        LET q == last.key
            M == Matching(tree, q)
        IN /\ Len(Blocks) = Min(q.max_results, Cardinality(M))
           /\ \A j \in 1..Len(Blocks) :
                  \E p \in M :
                      /\ Blocks[j] = BlockAt(tree, q, p)
                      /\ Cardinality({ r \in M : Before(r, p) }) = j - 1

\* C6 witness: max_results = 2, three matching lines over two files
C6_Witness ==
    /\ Returned
    /\ last.walked
    /\ last.key.max_results = 2
    /\ Cardinality(Matching(tree, last.key)) = 3
    /\ Len(Blocks) = 2
    /\ Blocks[1].file # Blocks[2].file

\* the pattern of the query does not compile as a regular expression
Uncompilable(q) == q.is_regex /\ q.pattern = "("

\* C15: a search whose root does not exist or is not a directory returns an
\* error string that names the root, and a search with is_regex = true whose
\* pattern does not compile returns an error string; in both cases no
\* directory is walked, no file is probed or read, and the call returns.
C15_ErrorStrings ==
    Returned =>
        /\ tree.root # "dir" =>
               /\ last.result = [kind |-> "error_root", text |-> last.key.repo_root]
               /\ ~last.walked
               /\ last.probed = <<>>
               /\ last.read = <<>>
        /\ Uncompilable(last.key) =>
               /\ last.result.kind \in {"error_root", "error_regex"}
               /\ ~last.walked
               /\ last.probed = <<>>
               /\ last.read = <<>>
        /\ (tree.root = "dir" /\ Uncompilable(last.key)) =>
               last.result = [kind |-> "error_regex", text |-> last.key.pattern]

\* C15 witness: the pattern did not compile, over a tree with a text file
\* that the globs select
C15_Witness ==
    /\ Returned
    /\ last.result.kind = "error_regex"
    /\ Scanned(tree, last.key) # {}

\* C16: a search over an existing root with a pattern that compiles, in which
\* no scanned line matches, returns exactly the sentinel 'No matches found
\* for pattern: <pattern>' with the caller's pattern, whatever include and
\* exclude globs were iterated during the walk.
C16_NoMatchSentinel ==
    (Returned /\ tree.root = "dir" /\ ~Uncompilable(last.key)
        /\ Matching(tree, last.key) = {}) =>
        last.result = [kind |-> "no_match", text |-> last.key.pattern]

\* C16 witness: lines were scanned and none matched, with include and
\* exclude globs iterated
C16_Witness ==
    /\ Returned
    /\ last.result.kind = "no_match"
    /\ last.read # <<>>
    /\ last.key.include_patterns # <<>>
    /\ last.key.exclude_patterns # <<>>
    /\ Scanned(tree, last.key) # {}

\* the file of the tree a match block names
TreeFile(t, id) ==
    LET d == CHOOSE i \in 1..Len(t.dirs) :
                 /\ t.dirs[i].name = id.dir
                 /\ \E j \in 1..Len(t.dirs[i].files) :
                        t.dirs[i].files[j].name = id.name
        dir == t.dirs[d]
    IN dir.files[CHOOSE j \in 1..Len(dir.files) : dir.files[j].name = id.name]

\* C18: for every match block and every value of context_lines, the window
\* covers lines max(1, m - context_lines) .. min(L, m + context_lines) of a
\* file of L lines with the match on line m, every line number in the window
\* is between 1 and L, and the bounds s and e of the header 'Context (Lines
\* s-e)' are between 1 and L (stated here for max_results >= 1).
C18_WindowWithinFile ==
    (Returned /\ last.key.max_results >= 1) =>
        \A j \in 1..Len(Blocks) :
            LET b == Blocks[j]
                L == Len(TreeFile(tree, b.file).lines)
                m == b.line_num
                c == last.key.context_lines
            IN /\ b.start_line = Max(1, m - c)
               /\ b.end_line = Min(L, m + c)
               /\ \A k \in 1..Len(b.context) :
                      b.context[k].n >= 1 /\ b.context[k].n <= L
               /\ b.start_line >= 1 /\ b.start_line <= L
               /\ b.end_line >= 1 /\ b.end_line <= L

----------------------------------------------------------------------------
(* Properties of the binary probe. *)

\* the bytes of a file one by one, and its first 8192 bytes
RECURSIVE Expand(_)
Expand(runs) ==
    IF runs = <<>> THEN <<>>
    ELSE [i \in 1..Head(runs).count |-> Head(runs).class] \o Expand(Tail(runs))
FirstBytes(f) ==
    LET all == Expand(f.bytes)
    IN SubSeq(all, 1, IF Len(all) < 8192 THEN Len(all) ELSE 8192)

\* binary: reading fails, or the first 8192 bytes hold a null byte, or fewer
\* than 70% of them are text bytes
LooksBinary(f) ==
    \/ f.status = "unreadable"
    \/ LET sample == FirstBytes(f)
           text == Cardinality({ i \in 1..Len(sample) : sample[i] = "text" })
       IN \/ \E i \in 1..Len(sample) : sample[i] = "nul"
          \/ 10 * text < 7 * Len(sample)

\* the one file of the probed tree
Probed == tree.dirs[1].files[1]

\* C17: a file is scanned for matches exactly when it is not binary, where a
\* file is binary exactly when reading it fails, its first 8192 bytes hold a
\* null byte, or fewer than 70% of them are printable ASCII, tab, newline or
\* carriage return; a binary file contributes no match block, an empty file
\* and a file with exactly 70% text bytes are text.
C17_BinaryNeverScanned ==
    Returned =>
        /\ (last.read # <<>>) <=> ~LooksBinary(Probed)
        /\ LooksBinary(Probed) => Blocks = <<>>
        /\ last.probed # <<>>

\* C17 witness: the last byte of the sample is a null byte and the first
\* line matches: no block
C17_Witness ==
    /\ Returned
    /\ Probed.status = "text"
    /\ Len(Probed.bytes) = 3
    /\ Probed.lines[1] = "a"
    /\ Probed.bytes[2] = Run("text", 8189)
    /\ Probed.bytes[3].class = "nul"
    /\ Blocks = <<>>

----------------------------------------------------------------------------
(* Properties of the cache over a session. *)

\* C7: two invocations with an identical query against an unchanged tree
\* return equal results, and the second is served from the cache: it walks
\* no directory and opens no file.
C7_SecondCallFromCache ==
    [][\A q \in SessionQueries :
         (SessionGrep(q) /\ last.key = Key(q) /\ ~touched) =>
             /\ last'.result = last.result
             /\ last'.hit
             /\ ~last'.walked
             /\ last'.probed = <<>>
             /\ last'.read = <<>>]_vars

\* C7 witness: a call served from the cache with match blocks, the tree
\* unchanged since
C7_Witness ==
    /\ Returned
    /\ last.hit
    /\ last.result.kind = "blocks"
    /\ ~touched

\* the key of the cache that was used least recently, by the history
LeastRecent(c, r) ==
    LET used == SelectSeq(r, LAMBDA k : k \in CacheKeys(c)) IN used[1]

\* C8: the cache never holds more than 128 entries, and a result stored for
\* a new key while the cache is full evicts the least recently used entry,
\* where storing an entry and a hit on it both count as a use.
C8_BoundedLru ==
    /\ [](Len(cache) <= maxsize)
    /\ [][\A q \in SessionQueries :
            (SessionGrep(q) /\ Key(q) \notin CacheKeys(cache)
                /\ Len(cache) = maxsize) =>
                /\ Key(q) \in CacheKeys(cache')
                /\ CacheKeys(cache) \ CacheKeys(cache')
                       = {LeastRecent(cache, recency)}]_vars

\* C8 witness: the cache is full, its oldest entry was hit and is still
\* there, and the entry stored after it was evicted
C8_Witness ==
    /\ Len(cache) = maxsize
    /\ Filler(1) \in CacheKeys(cache)
    /\ Filler(2) \notin CacheKeys(cache)
    /\ Returned
    /\ ~last.hit

\* C9: no change of the tree removes or updates a cache entry: while a
\* query's entry is in the cache, the identical query returns the string
\* stored by the first computation, whatever the tree holds now and whatever
\* the string says (match blocks, the no-matches sentinel, an error).
C9_NoInvalidation ==
    [][/\ \A t \in SessionTrees : FsChange(t) => cache' = cache
       /\ \A q \in SessionQueries :
            (SessionGrep(q) /\ Key(q) \in CacheKeys(cache)) =>
                LET e == cache[Find(cache, Key(q))]
                IN /\ last'.result = e.result
                   /\ cache'[Find(cache', Key(q))] = e]_vars

\* C9 witness: a hit returned a sentinel or an error string that a search
\* of the tree as it is now would not return
C9_Witness ==
    /\ Returned
    /\ last.hit
    /\ last.result.kind \in {"no_match", "error_root", "error_regex"}
    /\ last.result # GrepInternal(tree, last.key).result

----------------------------------------------------------------------------
(* Properties of concurrent callers. *)

Done(c) == callers[c].pc = "done"

\* C10: when several callers issue the identical query concurrently, under
\* every interleaving the cache holds exactly one entry for that query once a
\* caller has returned, a hit returns that entry, every caller's result
\* equals it when the tree is unchanged, and no key has two entries.
C10_OneEntryPerQuery ==
    /\ \A i, j \in 1..Len(cache) : i # j => cache[i].key # cache[j].key
    /\ \A c \in Callers :
           Done(c) =>
               /\ Cardinality({ i \in 1..Len(cache) :
                                  cache[i].key = callers[c].key }) = 1
               /\ (callers[c].hit \/ ~changed) =>
                      callers[c].result
                          = cache[Find(cache, callers[c].key)].result

\* C10 witness: every caller asked for the same query and has returned, two
\* of them after computing it themselves, on an unchanged tree
C10_Witness ==
    /\ ~changed
    /\ \A c \in Callers : Done(c) /\ callers[c].key = callers[1].key
    /\ \E c, d \in Callers : c # d /\ ~callers[c].hit /\ ~callers[d].hit
    /\ \E c \in Callers : callers[c].hit

----------------------------------------------------------------------------
(* Properties of whole calls of the parser. *)

\* C11: parse_diff_with_line_numbers is deterministic and keeps no state
\* between calls: whatever was parsed before and in whatever order, every
\* parse of the same diff text returned the same mapping, with for every file
\* an equal FileContext and the same context_text.
C11_SameDiffSameResult ==
    \A c1, c2 \in parses : c1.diff = c2.diff => c1.result = c2.result

\* C11 witness: a diff of a file was parsed again after the diff of another
\* file had been parsed, and gave a FileContext
C11_Witness ==
    /\ returned.op = "parse"
    /\ returned.again
    /\ returned.value # <<>>
    /\ \E c \in parses :
           /\ ~c.result.raised
           /\ c.result.value # <<>>
           /\ c.result.value[1].key # returned.value[1].key

\* the call that returned last parsed a diff of one file with the single
\* hunk '@@ -10,5 +10,7 @@' of five context lines and two added lines
IsInsertion(d) ==
    /\ d.text = "patch"
    /\ Len(d.files) = 1
    /\ Len(d.files[1].hunks) = 1
    /\ d.files[1].hunks[1].source_start = 10
    /\ d.files[1].hunks[1].target_start = 10
    /\ LET types == d.files[1].hunks[1].types
       IN /\ Len(types) = 7
          /\ Cardinality({ i \in 1..7 : types[i] = LINE_TYPE_ADDED }) = 2
          /\ Cardinality({ i \in 1..7 : types[i] = LINE_TYPE_CONTEXT }) = 5

\* C13: for a diff of one file with the single hunk '@@ -10,5 +10,7 @@' whose
\* body is five context lines and two added lines, at any positions of the
\* added lines, new_file_lines has exactly the line numbers 10..16, the
\* numbers of the two added lines are in added_lines, and the five original
\* lines are in neither added_lines nor modified_lines.
C13_InsertionNumbered ==
    (returned.op = "parse" /\ IsInsertion(diff_content)) =>
        /\ ~returned.raised
        /\ Len(returned.value) = 1
        /\ LET context == returned.value[1].value
               types == diff_content.files[1].hunks[1].types
           IN /\ Len(context.new_file_lines) = 7
              /\ \A i \in 1..7 : context.new_file_lines[i][1] = 9 + i
              /\ \A i \in 1..7 :
                     IF types[i] = LINE_TYPE_ADDED
                     THEN 9 + i \in context.added_lines
                     ELSE /\ 9 + i \notin context.added_lines
                          /\ 9 + i \notin context.modified_lines

\* C13 witness: the two added lines are the first and the last of the hunk
C13_Witness ==
    /\ returned.op = "parse"
    /\ IsInsertion(diff_content)
    /\ diff_content.files[1].hunks[1].types[1] = LINE_TYPE_ADDED
    /\ diff_content.files[1].hunks[1].types[7] = LINE_TYPE_ADDED

\* C14: parse_diff_with_line_numbers returns an empty mapping and lets no
\* exception escape when diff_content is empty, only whitespace, or text
\* that fails to parse as a unified diff.
C14_NoDiffEmptyMapping ==
    (returned.op = "parse"
        /\ diff_content.text \in {"empty", "blank", "prose", "broken"}) =>
        /\ ~returned.raised
        /\ returned.value = <<>>

\* C14 witness: PatchSet gave up after a well-formed file, and the call
\* before had returned a FileContext
C14_Witness ==
    /\ returned.op = "parse"
    /\ diff_content.text = "broken"
    /\ diff_content.files # <<>>
    /\ \E c \in parses : ~c.result.raised /\ c.result.value # <<>>

----------------------------------------------------------------------------
(* Properties of the lookup of a file and of the path normalisation. *)

\* the mapping the lookup searched
AllContexts == parse_diff_with_line_numbers(diff_content, <<>>).value

\* p is in normal form: no diff prefix and no leading slash
IsNormal(p) ==
    /\ ~StartsWith(p, <<"a", "/">>)
    /\ ~StartsWith(p, <<"b", "/">>)
    /\ ~StartsWith(p, <<"/">>)

\* the path names the key p: p itself, behind 'a/' or 'b/', behind '/', or
\* behind both, surrounding whitespace aside
NamesKey(path, p) ==
    \E pre \in { <<>>, <<"a", "/">>, <<"b", "/">> }, slash \in { <<>>, <<"/">> } :
        Strip(path) = pre \o slash \o p

\* C19 as stated: for a file stored under key p, lookups with p, 'a/'+p,
\* 'b/'+p and '/'+p all return the FileContext of p, and a lookup of a path
\* that names no stored key returns None.
C19_PrefixedLookupsAgree ==
    returned.op = "lookup" =>
        /\ \A p \in StoredKeys(diff_content) :
               file_path \in { pre \o p : pre \in Prefixes } =>
                   returned.value = Some(DictGet(AllContexts, p))
        /\ (\A p \in StoredKeys(diff_content) : ~NamesKey(file_path, p)) =>
               returned.value = NoContext

\* C19, amended: when no stored key itself starts with 'a/', 'b/' or '/',
\* lookups with p, 'a/'+p, 'b/'+p and '/'+p all return the FileContext
\* stored under p, and a lookup of a path that names no stored key returns
\* None.
C19_PrefixedLookupsAgreeIfNormal ==
    (returned.op = "lookup"
        /\ \A k \in StoredKeys(diff_content) : IsNormal(k)) =>
        /\ \A p \in StoredKeys(diff_content) :
               file_path \in { pre \o p : pre \in Prefixes } =>
                   returned.value = Some(DictGet(AllContexts, p))
        /\ (\A p \in StoredKeys(diff_content) : ~NamesKey(file_path, p)) =>
               returned.value = NoContext

\* C19 witness: two files under keys in normal form, the second one looked
\* up behind the prefix 'b/'
C19_Witness ==
    /\ returned.op = "lookup"
    /\ Len(AllContexts) = 2
    /\ \A k \in StoredKeys(diff_content) : IsNormal(k)
    /\ file_path = <<"b", "/">> \o AllContexts[2].key
    /\ returned.value = Some(AllContexts[2].value)

\* C20: for every input (surrounding whitespace aside) the result of
\* _normalize_file_path does not start with '/', and a path that has neither
\* the prefix 'a/' or 'b/' nor a leading slash is returned unchanged.
C20_ResultRelative ==
    (returned.op = "normalize" /\ Strip(file_path) = file_path) =>
        /\ ~StartsWith(returned.value, <<"/">>)
        /\ IsNormal(file_path) => returned.value = file_path

----------------------------------------------------------------------------
(* Claims about the files of a diff. *)

\* the key a file of the diff is stored under
KeyOf(f) == normalize_file_path(f.path)

\* the files of the diff in hand that are neither binary nor removed
Kept ==
    { i \in 1..Len(diff_content.files) :
        /\ ~diff_content.files[i].is_binary_file
        /\ ~diff_content.files[i].is_removed_file }

\* the last kept file stored under its key
LastOfKey(i) ==
    /\ i \in Kept
    /\ \A j \in Kept :
           KeyOf(diff_content.files[j]) = KeyOf(diff_content.files[i]) => j <= i

\* every body line of the file is of one of the types
OnlyTypes(f, types) ==
    /\ f.hunks # <<>>
    /\ \A h \in 1..Len(f.hunks) :
           \A l \in 1..Len(f.hunks[h].types) : f.hunks[h].types[l] \in types

CodeLines(text) ==
    { i \in 1..Len(text) : "marker" \in DOMAIN text[i] }

\* the body lines of the only hunk of the diff in hand
OnlyHunk == HunkLines(diff_content.files[1].hunks[1])

\* the context line numbered n in the new file lies within k body lines of
\* an added or removed line of the hunk
NearChange(n, k) ==
    \E l, c \in 1..Len(OnlyHunk) :
        /\ is_context(OnlyHunk[l])
        /\ OnlyHunk[l].target_line_no = n
        /\ is_added(OnlyHunk[c]) \/ is_removed(OnlyHunk[c])
        /\ Abs(l - c) <= k

\* C22: generate_context_text_for_file returns the empty string when the
\* file is not found; without context lines the text holds only the added
\* and modified lines; with context lines every context line of the text is
\* one of the max_context_lines lines before or after a change.
C22_ContextLinesBounded ==
    returned.op = "generate" =>
        LET found == get_file_context_with_line_numbers(diff_content, file_path)
            text == returned.value
        IN IF ~found.found THEN text = <<>>
           ELSE IF ~returned.include_context_lines
           THEN \A i \in CodeLines(text) :
                    text[i].line_num \in found.context.added_lines
                                          \cup found.context.modified_lines
           ELSE \A i \in CodeLines(text) :
                    text[i].line_num \notin found.context.added_lines =>
                        NearChange(text[i].line_num, returned.max_context_lines)

----------------------------------------------------------------------------
(* Claims about the parser's line counter. *)

\* the hunks of p start at line 1 or later where they have new-file lines,
\* and each ends before the next begins
Ascending(p) ==
    /\ \A h \in 1..Len(p) :
           CountTarget(p[h].lines) > 0 => p[h].target_start >= 1
    /\ \A h1, h2 \in 1..Len(p) :
           h1 < h2 =>
               p[h1].target_start + CountTarget(p[h1].lines) <= p[h2].target_start

\* the step enters a hunk / reads a body line of the current hunk
EntersHunk == pc = "hunks" /\ Len(patch') = Len(patch) + 1
ReadsLine ==
    /\ pc = "lines"
    /\ Len(patch') = Len(patch)
    /\ Len(patch'[Len(patch)].lines) = Len(CurHunk.lines) + 1

\* the body line a ReadsLine step reads
LineRead == patch'[Len(patch)].lines[Len(CurHunk.lines) + 1]

\* the step appends one entry to new_file_lines, numbered n
RecordsUnder(n) ==
    /\ Len(new_file_lines') = Len(new_file_lines) + 1
    /\ SubSeq(new_file_lines', 1, Len(new_file_lines)) = new_file_lines
    /\ new_file_lines'[Len(new_file_lines')][1] = n

\* what C23 says of every step but the recording
CounterSteps ==
    /\ EntersHunk =>
           current_new_line' =
               IF current_new_line < patch'[Len(patch')].target_start
               THEN patch'[Len(patch')].target_start
               ELSE current_new_line
    /\ (ReadsLine /\ (is_added(LineRead) \/ is_context(LineRead))) =>
           current_new_line' = current_new_line + 1
    /\ (ReadsLine /\ is_removed(LineRead)) =>
           /\ current_new_line' = current_new_line
           /\ new_file_lines' = new_file_lines

\* C23 as stated: current_new_line starts at 1, is raised to target_start on
\* entering a hunk when it is behind, goes up by one after each Added or
\* Context line and stays at a Removed line, and every Added and Context
\* line is recorded under the value current_new_line has at that line, for
\* every sequence of hunks.
C23_RecordedUnderCounter ==
    /\ current_new_line = 1
    /\ [][ /\ CounterSteps
           /\ (ReadsLine /\ (is_added(LineRead) \/ is_context(LineRead))) =>
                  RecordsUnder(current_new_line) ]_vars

\* C23, amended: the counter moves as stated; an Added or Context line is
\* recorded under the new-file number unidiff gives it, or under
\* current_new_line when that number is 0, and the two are equal whenever the
\* hunks read so far start at line 1 or later and each ends before the next
\* begins.
C23_RecordedUnderTargetNumber ==
    /\ current_new_line = 1
    /\ [][ /\ CounterSteps
           /\ (ReadsLine /\ (is_added(LineRead) \/ is_context(LineRead))) =>
                  /\ RecordsUnder(IF LineRead.target_line_no # 0
                                  THEN LineRead.target_line_no
                                  ELSE current_new_line)
                  /\ Ascending(patch') => RecordsUnder(current_new_line) ]_vars

\* C23 witness: two hunks in file order with a gap between them, both with
\* new-file lines, the second read to its last line
C23_Witness ==
    /\ pc = "done"
    /\ Len(patch) = 2
    /\ Ascending(patch)
    /\ CountTarget(patch[1].lines) > 0
    /\ CountTarget(patch[2].lines) = MaxHunkLines
    /\ patch[1].target_start + CountTarget(patch[1].lines) < patch[2].target_start
    /\ current_new_line = patch[2].target_start + MaxHunkLines

----------------------------------------------------------------------------
(* Claims about the walk of a search. *)

\* the files of the tree, as (directory, file) positions
TreeFiles ==
    { p \in (1..Len(tree.dirs)) \X (1..MaxTreeFiles + 1) :
        p[2] <= Len(tree.dirs[p[1]].files) }
FileAt(p) == tree.dirs[p[1]].files[p[2]]
IdAt(p) == RelativePath(tree.dirs[p[1]], FileAt(p))

\* the files the last call read, and those a block of its result names
WasRead(p) == \E i \in 1..Len(last.read) : last.read[i] = IdAt(p)
WasMatched(p) == \E i \in 1..Len(Blocks) : Blocks[i].file = IdAt(p)

\* glob g matches the file at p by its name or by its relative path
GlobHits(g, p) ==
    \/ Fnmatch(BareName(FileAt(p)), g)
    \/ Fnmatch(IdAt(p), g)

\* C24: a file reached by the walk is scanned exactly when some include glob
\* and no exclude glob matches its bare name or its path relative to the
\* root; an exclude match wins over an include match, and with an empty
\* include list no file is scanned.
C24_IncludeAndNotExclude ==
    (Returned /\ last.walked) =>
        LET include == last.key.include_patterns
            exclude == last.key.exclude_patterns
        IN /\ \A p \in TreeFiles :
                  WasRead(p) <=>
                      /\ \E i \in 1..Len(include) : GlobHits(include[i], p)
                      /\ \A e \in 1..Len(exclude) : ~GlobHits(exclude[e], p)
           /\ \A p \in TreeFiles : WasMatched(p) <=> WasRead(p)
           /\ include = <<>> => last.read = <<>>

\* C24 witness: of three files only src/n.md is scanned: 'src/*' includes it
\* by its relative path and '*.py' excludes src/m.py
C24_Witness ==
    /\ Returned
    /\ last.key.include_patterns = <<"src/*">>
    /\ last.key.exclude_patterns = <<"*.py">>
    /\ Cardinality(TreeFiles) >= 3
    /\ last.read = << [dir |-> "src", name |-> "n.md"] >>
    /\ Len(Blocks) = 1

\* the file at p was probed by _is_binary_file
WasProbed(p) == \E i \in 1..Len(last.probed) : last.probed[i] = IdAt(p)

\* directory d of the tree and the directories it lies in
RECURSIVE Above(_)
Above(d) == IF d = 1 THEN {1} ELSE {d} \cup Above(Parent(tree.dirs[d]))

\* directory d is, or lies inside, a directory below the root whose name
\* starts with '.' or is in the ignore set
InIgnored(d) ==
    \E a \in Above(d) : a > 1 /\ ShouldSkipDirectory(Base(tree.dirs[a]))

\* C25: no file inside a directory below the root whose name starts with
\* '.' or is in the ignore set, at whatever depth that directory lies above
\* the file, is probed, read or named in a block of the result.
C25_IgnoredSubtreesPruned ==
    (Returned /\ last.walked) =>
        \A p \in TreeFiles :
            InIgnored(p[1]) =>
                ~WasProbed(p) /\ ~WasRead(p) /\ ~WasMatched(p)

\* C25 witness: src/build/lib and docs: the walk reads the files of the
\* root, of src and of docs, and neither src/build/m.py nor
\* src/build/lib/m.py
C25_Witness ==
    /\ Returned
    /\ Len(tree.dirs) = 5
    /\ tree.dirs[3].name = "src/build"
    /\ tree.dirs[4].name = "src/build/lib"
    /\ last.key.max_results = DefaultMaxResults
    /\ last.read = << [dir |-> "", name |-> "m.py"],
                      [dir |-> "src", name |-> "m.py"],
                      [dir |-> "docs", name |-> "m.py"] >>
    /\ Len(Blocks) = 3

\* the tree without the files that cannot be opened or read
Readable(t) ==
    [t EXCEPT !.dirs =
        [d \in 1..Len(t.dirs) |->
            [t.dirs[d] EXCEPT !.files =
                SelectSeq(@, LAMBDA f : f.status = "text")]]]

\* C26: a file that cannot be opened or read is skipped and nothing else
\* changes: the call returns the match blocks or the no-match sentinel it
\* returns for the same tree without the failing files, so matches before
\* and after a failing file are kept and no failure is reported.
C26_ReadFailureSkipsFile ==
    (Returned /\ last.walked) =>
        /\ last.result = GrepInternal(Readable(tree), last.key).result
        /\ last.result.kind \in {"blocks", "no_match"}
        /\ \A p \in TreeFiles : FileAt(p).status # "text" => ~WasMatched(p)

\* C26 witness: n.md vanishes between the probe and the read, after a match
\* in m.py and before a match in src/m.py; both matches are returned
C26_Witness ==
    /\ Returned
    /\ tree.dirs[1].files[2].status = "gone"
    /\ last.key.max_results > 1
    /\ last.probed = << [dir |-> "", name |-> "m.py"],
                        [dir |-> "", name |-> "n.md"],
                        [dir |-> "src", name |-> "m.py"] >>
    /\ Len(Blocks) = 2
    /\ Blocks[1].file = [dir |-> "", name |-> "m.py"]
    /\ Blocks[2].file = [dir |-> "src", name |-> "m.py"]

----------------------------------------------------------------------------
(* Claims about the expert sub-graph. *)

\* the last message of the state carries a non-empty tool_calls list
CarriesToolCalls(state_messages) ==
    /\ state_messages # <<>>
    /\ "tool_calls" \in DOMAIN state_messages[Len(state_messages)]
    /\ Len(state_messages[Len(state_messages)].tool_calls) > 0

\* C27: the run starts at reasoner; after each reasoner step control goes to
\* tools if and only if the last message carries a non-empty tool_calls list
\* and otherwise to END; after every tools step control returns to reasoner;
\* END is entered only from reasoner, with a last message without tool calls,
\* and never left.
C27_ReasonerToolsLoop ==
    /\ node = "reasoner"
    /\ [][ /\ (node = "reasoner" /\ steps' = steps + 1) =>
                  /\ CarriesToolCalls(messages') <=> node' = "tools"
                  /\ ~CarriesToolCalls(messages') <=> node' = END
           /\ (node = "tools" /\ steps' = steps + 1) => node' = "reasoner"
           /\ (node' = END /\ node # END) =>
                  node = "reasoner" /\ ~CarriesToolCalls(messages')
           /\ node = END => node' = END ]_vars

\* C27 witness: a run that went through the tools twice and then reached
\* END on an answer without tool calls
C27_Witness ==
    /\ node = END
    /\ steps = 5
    /\ ~raised
    /\ reducer = "add_messages"
    /\ Cardinality({ i \in 1..Len(messages) : messages[i].type = "tool" }) >= 2
    /\ messages[Len(messages)] = [type |-> "ai", tool_calls |-> <<>>]

----------------------------------------------------------------------------
(* Claims about the dictionary of GrepTool.run. *)

----------------------------------------------------------------------------
(* Claims about the sets of a FileContext and the keys of the mapping. *)

\* C29: modified_lines is a subset of added_lines, while the file is parsed
\* and in the FileContext built from it: a line reclassified as modified
\* stays in added_lines.
C29_ModifiedSubsetOfAdded == modified_lines \subseteq added_lines

\* C29 witness: a FileContext of two hunks, each replacing one line: both
\* new lines are modified and added
C29_Witness ==
    /\ pc = "done"
    /\ Len(patch) = 2
    /\ Cardinality(modified_lines) = 2
    /\ modified_lines = added_lines

\* C30: every file of the diff that is neither binary nor fully removed has
\* its own FileContext in the mapping: no two of these files are stored
\* under the same key, and there are as many entries as such files.
C30_OneEntryPerFile ==
    (returned.op = "parse" /\ diff_content.text = "patch") =>
        /\ \A i, j \in Kept :
               i # j => KeyOf(diff_content.files[i]) # KeyOf(diff_content.files[j])
        /\ Len(returned.value) = Cardinality(Kept)

====
